---- MODULE Spec2Model ----
(***************************************************************************)
(* Model of the itihas-rag keyword search engine:                          *)
(*   scripts/index_corpus.py   index_corpus / index_document (the writer)  *)
(*   app/search/keyword.py     KeywordSearcher (the reader)                *)
(*   app/utils/normalize.py    MarathiNormalizer                           *)
(*   app/main.py               the HTTP handlers that call the searcher    *)
(*                                                                         *)
(* Text is a sequence of characters, each character an atom (a one-char    *)
(* string).  The Xapian database directory is `disk`; a reader handle is a *)
(* snapshot of the committed documents taken when the handle was opened.   *)
(***************************************************************************)
EXTENDS Integers, Sequences, FiniteSets, TLC

VARIABLES
    \* ---- scripts/index_corpus.py: the on-disk index and one index_corpus run
    corpus,          \* the corpus directory: [exists, files], a file being what reading it gives
    disk,            \* <index_dir>/xapian_db: [exists, docs] (docs = committed documents)
    ipc,             \* position of the index_corpus process
    run,             \* number of index_corpus calls started so far
    force_rebuild,   \* argument of the current call
    text_files,      \* sorted(corpus_path.glob("*.txt")) of the current call, as file kinds
    idx,             \* loop variable i of the for loop (files processed so far)
    pending,         \* documents added to the WritableDatabase and not yet committed
    stats,           \* the stats dict of the current call
    ierr,            \* exception that ended the current call ("none" when none)
    prev,            \* history: the content of disk when the current call started
    \* ---- app/search/keyword.py: one KeywordSearcher
    self_db,         \* self._db: 0 is None, otherwise the slot of a handle
    handles,         \* the xapian.Database objects alive: slot -> [state, snap]
    call,            \* the last handler call made on the searcher, with its outcome
    \* ---- the same KeywordSearcher called from several threads
    tpc,             \* position of each thread inside search / search_exact / reload_index
    top,             \* the method each thread is running
    tquery,          \* its query argument
    tqp,             \* handle given to qp.set_database(self.db)
    tenq,            \* handle given to xapian.Enquire(self.db)
    tout,            \* outcome of the thread's call
    treloaded,       \* history: reload_index closed the handle while the call was in flight
    \* ---- KeywordSearcher.search as a function of the match set
    matched,         \* all documents matching the query, in Xapian relevance order
    max_possible,    \* matches.get_max_possible()
    limit,           \* argument limit
    offset,          \* argument offset
    use_fuzzy_rerank,\* argument use_fuzzy_rerank
    maxitems,        \* the number of matches search asked of get_mset
    results,         \* the list search returned
    spc,             \* "input" before the call, "done" after
    \* ---- index_document + KeywordSearcher.search_exact on one page
    content,         \* text of the source file
    phrase,          \* query passed to search_exact
    positions,       \* positional term list the TermGenerator wrote for the document
    exact_hits,      \* what search_exact returned: <<>> or <<content>>
    epc,             \* "input", "indexed", "done"
    \* ---- app/utils/context.py: one call of extract_context
    pages,           \* the corpus directory: file name -> what reading the file gives
    cfile,           \* argument filename
    cquery,          \* argument query
    context_lines,   \* argument context_lines
    ctx,             \* the dict extract_context returned, or the exception it raised
    cpc,             \* "input" before the call, "done" after
    \* ---- index_document, then the document read back by the searcher
    corpus_dir,      \* argument corpus_dir of index_corpus, as path components
    src_name,        \* name of the source file inside the corpus directory
    src_bytes,       \* characters of the source file as they are on disk
    doc_data,        \* the string given to doc.set_data
    record,          \* the dict json.loads gives back from doc.get_data()
    rpc,             \* "input", "indexed", "read"
    \* ---- MarathiNormalizer on one text
    ntext,           \* the input text
    nonce,           \* normalize(text)
    ntwice,          \* normalize(normalize(text))
    nvariants,       \* get_variants(text)
    npc              \* "input", "normalized", "renormalized", "done"

buildVars  == <<corpus, disk, ipc, run, force_rebuild, text_files, idx, pending, stats, ierr, prev>>
readerVars == <<self_db, handles, call>>
threadVars == <<tpc, top, tquery, tqp, tenq, tout, treloaded>>
searchVars == <<matched, max_possible, limit, offset, use_fuzzy_rerank, maxitems, results, spc>>
exactVars  == <<content, phrase, positions, exact_hits, epc>>
contextVars == <<pages, cfile, cquery, context_lines, ctx, cpc>>
recordVars == <<corpus_dir, src_name, src_bytes, doc_data, record, rpc>>
normVars   == <<ntext, nonce, ntwice, nvariants, npc>>
pureVars   == <<contextVars, recordVars, normVars>>
vars == <<buildVars, readerVars, threadVars, searchVars, exactVars, pureVars>>

----------------------------------------------------------------------------
(* Bounds of the model *)

MaxRuns    == 2    \* index_corpus calls explored
MaxFiles   == 2    \* source files per call
MaxDocs    == 5    \* documents matching one query
MaxWeight  == 3    \* Xapian weights are drawn from 1..MaxWeight
MaxLimit   == 2    \* limit is drawn from 1..MaxLimit
MaxOffset  == 2    \* offset is drawn from 0..MaxOffset
MaxContent == 4    \* characters in a page
MaxPhrase  == 3    \* characters in an exact-search query
MaxLines   == 3    \* lines in the page extract_context is asked about
MaxWindow  == 2    \* context_lines is drawn from -2..MaxWindow
MaxBytes   == 3    \* characters in the source file whose record is read back
MaxText    == 3    \* characters in the text given to the normalizer

----------------------------------------------------------------------------
(* Sequences *)

SeqsUpTo(S, n) == UNION {[1..k -> S] : k \in 0..n}

Range(s) == {s[k] : k \in 1..Len(s)}

\* The sequences of ss one after the other
RECURSIVE Concat(_)
Concat(ss) == IF ss = <<>> THEN <<>> ELSE ss[1] \o Concat(Tail(ss))

Max(a, b) == IF a >= b THEN a ELSE b
Min(a, b) == IF a <= b THEN a ELSE b

\* Python slice s[lo:hi] for 0 <= lo, 0 <= hi
Slice(s, lo, hi) ==
    LET h == Min(hi, Len(s))
    IN  IF lo >= h THEN <<>> ELSE [k \in 1..(h - lo) |-> s[lo + k]]

----------------------------------------------------------------------------
(* Text: app/utils/normalize.py and the tokenizer of Xapian's TermGenerator *)

\* Characters matched by \s and removed by str.strip()
Whitespace == {" ", "\n", "\r"}

\* unicodedata.normalize("NFKC", .) on the characters of the model.
\* Decomposition: the fullwidth capital A (U+FF21, written "FW_A") is folded to
\* "A"; U+0929, U+0931, U+0934 ("n_nukta", "r_nukta", "l_nukta") are the
\* consonants U+0928, U+0930, U+0933 ("n", "r", "l") followed by the nukta
\* U+093C ("nukta")
nfkc_char(c) ==
    CASE c = "FW_A" -> <<"A">>
      [] c = "n_nukta" -> <<"n", "nukta">>
      [] c = "r_nukta" -> <<"r", "nukta">>
      [] c = "l_nukta" -> <<"l", "nukta">>
      [] OTHER -> <<c>>

\* Composition: a consonant and the nukta right after it become the one
\* character again; a further nukta stays as it is
RECURSIVE nfkc_compose(_)
nfkc_compose(text) ==
    IF text = <<>> THEN <<>>
    ELSE IF Len(text) >= 2 /\ text[2] = "nukta" /\ text[1] \in {"n", "r", "l"}
         THEN <<CASE text[1] = "n" -> "n_nukta"
                  [] text[1] = "r" -> "r_nukta"
                  [] OTHER -> "l_nukta">> \o nfkc_compose(SubSeq(text, 3, Len(text)))
         ELSE <<text[1]>> \o nfkc_compose(Tail(text))

nfkc(text) == nfkc_compose(Concat([k \in 1..Len(text) |-> nfkc_char(text[k])]))

\* self._char_mappings: U+0929 -> U+0928, U+0931 -> U+0930, U+0934 -> U+0933
\* (written "n_nukta" -> "n", "r_nukta" -> "r", "l_nukta" -> "l")
char_mapping(c) ==
    CASE c = "n_nukta" -> "n"
      [] c = "r_nukta" -> "r"
      [] c = "l_nukta" -> "l"
      [] OTHER -> c
apply_char_mappings(text) == [k \in 1..Len(text) |-> char_mapping(text[k])]

\* str.lower()
lower_char(c) == IF c = "A" THEN "a" ELSE IF c = "B" THEN "b" ELSE c
lower(text) == [k \in 1..Len(text) |-> lower_char(text[k])]

RECURSIVE lstrip(_)
lstrip(text) ==
    IF text = <<>> THEN text
    ELSE IF text[1] \in Whitespace THEN lstrip(Tail(text)) ELSE text

RECURSIVE rstrip(_)
rstrip(text) ==
    IF text = <<>> THEN text
    ELSE IF text[Len(text)] \in Whitespace
         THEN rstrip(SubSeq(text, 1, Len(text) - 1)) ELSE text

\* str.strip()
strip(text) == rstrip(lstrip(text))

\* self._whitespace_re.sub(' ', text): every run of whitespace becomes one space
RECURSIVE whitespace_sub(_)
whitespace_sub(text) ==
    IF text = <<>> THEN <<>>
    ELSE IF text[1] \in Whitespace
         THEN <<" ">> \o whitespace_sub(lstrip(text))
         ELSE <<text[1]>> \o whitespace_sub(Tail(text))

\* Step 3 of normalize: self._indic_normalizer is None when indicnlp cannot be
\* imported, and the step is then skipped
indic_normalize(text) == text

\* MarathiNormalizer.normalize
normalize(text) ==
    IF text = <<>> THEN text
    ELSE strip(whitespace_sub(indic_normalize(apply_char_mappings(nfkc(text)))))

\* MarathiNormalizer.get_variants
get_variants(text) ==
    LET v1 == IF text # <<>> THEN <<text>> ELSE <<>>
        normalized == normalize(text)
        v2 == IF normalized # <<>> /\ normalized \notin Range(v1)
              THEN Append(v1, normalized) ELSE v1
        lowered == IF normalized # <<>> THEN lower(normalized) ELSE <<>>
    IN  IF lowered # <<>> /\ lowered \notin Range(v2) THEN Append(v2, lowered) ELSE v2

\* Length of the leading run of non-whitespace characters
RECURSIVE word_len(_)
word_len(text) ==
    IF text = <<>> \/ text[1] \in Whitespace THEN 0 ELSE 1 + word_len(Tail(text))

\* The words of a text, in order (whitespace-delimited)
RECURSIVE split(_)
split(text) ==
    LET t == lstrip(text)
        n == word_len(t)
    IN  IF t = <<>> THEN <<>>
        ELSE <<SubSeq(t, 1, n)>> \o split(SubSeq(t, n + 1, Len(t)))

\* Terms Xapian makes of a text: its words, lowercased (no stemming)
terms_of(text) == LET w == split(text) IN [k \in 1..Len(w) |-> lower(w[k])]

\* `not query` alone: a whitespace-only query is let through
query_is_empty(query) == query = <<>>

\* `not query or not query.strip()`
IsBlankQuery(query) == query = <<>> \/ strip(query) = <<>>

----------------------------------------------------------------------------
(* scripts/index_corpus.py *)

\* What reading a source file can give index_document:
\*   "ok"         non-empty text, added to the database
\*   "empty"      content.strip() is empty
\*   "error"      read_text or db.add_document raises
FileKinds == {"ok", "empty", "error"}

NoIndex == [exists |-> FALSE, docs |-> <<>>]

NoStats == [total |-> 0, indexed |-> 0, skipped |-> 0, errors |-> 0, db_doc_count |-> -1]

IndexerRunning == ipc \in {"existing", "create", "loop"}

\* A file is added unless reading it raised, an empty one included
index_document_adding_empty(kind) == kind # "error"

\* index_document: TRUE when the file was added to the database; every
\* exception is caught and reported as False
index_document(kind) == kind = "ok"

\* The record index_document stores for the file at position i of text_files
NewDoc(r, i) == [run |-> r, doc_id |-> i]

\* The documents a complete build of `files` by call r holds
RECURSIVE BuildOf(_, _, _)
BuildOf(r, files, n) ==
    IF n = 0 THEN <<>>
    ELSE LET rest == BuildOf(r, files, n - 1)
         IN  IF index_document(files[n]) THEN Append(rest, NewDoc(r, n - 1)) ELSE rest

NewIndex == [exists |-> TRUE, docs |-> BuildOf(run, text_files, Len(text_files))]

\* index_corpus, lines 141-158: validate the corpus directory, list the files
index_corpus(force) ==
    /\ ipc = "idle"
    /\ run < MaxRuns
    /\ run' = run + 1
    /\ force_rebuild' = force
    /\ prev' = disk
    /\ idx' = 0
    /\ pending' = <<>>
    /\ IF ~corpus.exists
       THEN /\ ipc' = "raised"
            /\ ierr' = "FileNotFoundError"
            /\ text_files' = <<>>
            /\ stats' = NoStats
       ELSE /\ ierr' = "none"
            /\ text_files' = corpus.files
            /\ IF corpus.files = <<>>
               THEN /\ ipc' = "returned"
                    /\ stats' = NoStats
               ELSE /\ ipc' = "existing"
                    /\ stats' = [NoStats EXCEPT !.total = Len(corpus.files)]
    /\ UNCHANGED <<corpus, disk, readerVars, threadVars, searchVars, exactVars, pureVars>>

\* lines 160-169: an existing index is removed when force_rebuild, kept otherwise
handle_existing_index ==
    /\ ipc = "existing"
    /\ disk' = IF disk.exists /\ force_rebuild THEN NoIndex ELSE disk
    /\ ipc' = "create"
    /\ UNCHANGED <<corpus, run, force_rebuild, text_files, idx, pending, stats, ierr, prev,
                   readerVars, threadVars, searchVars, exactVars, pureVars>>

\* line 172: xapian.WritableDatabase(path, DB_CREATE_OR_OPEN) creates an empty
\* database when there is none and opens the existing one otherwise; it can fail
create_or_open(created) ==
    /\ ipc = "create"
    /\ IF created
       THEN /\ disk' = IF disk.exists THEN disk ELSE [exists |-> TRUE, docs |-> <<>>]
            /\ ipc' = "loop"
            /\ ierr' = ierr
       ELSE /\ disk' = disk
            /\ ipc' = "raised"
            /\ ierr' = "DatabaseError"
    /\ UNCHANGED <<corpus, run, force_rebuild, text_files, idx, pending, stats, prev,
                   readerVars, threadVars, searchVars, exactVars, pureVars>>

\* lines 192-201: one iteration of the loop over text_files
index_next_file ==
    /\ ipc = "loop"
    /\ idx < Len(text_files)
    /\ LET success == index_document(text_files[idx + 1])
       IN  /\ pending' = IF success THEN Append(pending, NewDoc(run, idx)) ELSE pending
           /\ stats' = IF success
                       THEN [stats EXCEPT !.indexed = @ + 1]
                       ELSE [stats EXCEPT !.skipped = @ + 1]
    /\ idx' = idx + 1
    /\ UNCHANGED <<corpus, disk, ipc, run, force_rebuild, text_files, ierr, prev,
                   readerVars, threadVars, searchVars, exactVars, pureVars>>

\* lines 203-215: db.commit() publishes the added documents after the ones the
\* database already held; a failed commit leaves the committed revision as it was
commit(committed) ==
    /\ ipc = "loop"
    /\ idx = Len(text_files)
    /\ IF committed
       THEN /\ disk' = [disk EXCEPT !.docs = @ \o pending]
            /\ stats' = [stats EXCEPT !.db_doc_count = Len(disk.docs) + Len(pending)]
            /\ ipc' = "done"
            /\ ierr' = ierr
       ELSE /\ disk' = disk
            /\ stats' = stats
            /\ ipc' = "raised"
            /\ ierr' = "DatabaseError"
    /\ pending' = <<>>
    /\ UNCHANGED <<corpus, run, force_rebuild, text_files, idx, prev,
                   readerVars, threadVars, searchVars, exactVars, pureVars>>

\* main, lines 241-246: the process ends and its memory with it; a later call
\* may follow
process_exit ==
    /\ ipc \in {"done", "returned", "raised"}
    /\ ipc' = "idle"
    /\ force_rebuild' = FALSE
    /\ text_files' = <<>>
    /\ idx' = 0
    /\ pending' = <<>>
    /\ stats' = NoStats
    /\ ierr' = "none"
    /\ UNCHANGED <<corpus, disk, run, prev, readerVars, threadVars, searchVars, exactVars, pureVars>>

----------------------------------------------------------------------------
(* app/search/keyword.py: KeywordSearcher, one call at a time (the handlers of
   app/main.py are coroutines that never await inside a call, so the event
   loop runs them one after the other; index_corpus is another process) *)

\* Queries the callers pass: empty, whitespace only, one term, a term followed
\* by the operator AND with nothing after it (the word AND is one character)
Queries == {<<>>, <<" ">>, <<"a">>}

\* The queries sent to the server: those above and one that ends with an operator
ServerQueries == Queries \cup {<<"a", " ", "AND">>}

NoCall == [op |-> "none", query |-> <<>>, outcome |-> "none", result |-> <<>>,
           observed |-> FALSE, saw |-> NoIndex, run |-> 0, during |-> FALSE, count |-> 0]

\* A xapian.Database object lives in a slot; a slot is "free" until an object
\* is created in it and again once the object is closed and no longer referenced
Threads == {1, 2}

Slots == 1..(2 * Cardinality(Threads) + 1)

FreeSlot == [state |-> "free", snap |-> <<>>]

\* The handles a thread's running call holds in its QueryParser and Enquire
HeldBy(t) == {tqp[t], tenq[t]} \ {0}

\* Python frees an object when the last reference to it goes: the handles of
\* hs that neither self._db (sdb) nor a running call of a thread of ts holds
Collect(hs, sdb, ts) ==
    [h \in Slots |->
        IF h # sdb /\ \A t \in ts : h \notin HeldBy(t) THEN FreeSlot ELSE hs[h]]

FirstFree(hs) == CHOOSE h \in Slots : hs[h].state = "free" /\ \A g \in 1..(h - 1) : hs[g].state # "free"

\* xapian.Database(path) on a missing directory, the test of line 50 left out
db_without_exists_test ==
    IF self_db # 0
    THEN [h |-> self_db, handles |-> handles, err |-> "none"]
    ELSE IF ~disk.exists
         THEN [h |-> 0, handles |-> handles, err |-> "DatabaseOpeningError"]
         ELSE [h |-> FirstFree(handles),
               handles |-> [handles EXCEPT ![FirstFree(handles)] =
                                [state |-> "open", snap |-> disk.docs]],
               err |-> "none"]

\* KeywordSearcher.db: the handle after the access (0 when it raised), the
\* handles after it, and the exception raised
db ==
    IF self_db # 0
    THEN [h |-> self_db, handles |-> handles, err |-> "none"]
    ELSE IF ~disk.exists
         THEN [h |-> 0, handles |-> handles, err |-> "FileNotFoundError"]
         ELSE [h |-> FirstFree(handles),
               handles |-> [handles EXCEPT ![FirstFree(handles)] =
                                [state |-> "open", snap |-> disk.docs]],
               err |-> "none"]

\* xapian.QueryParser flags: FLAG_DEFAULT is FLAG_PHRASE | FLAG_BOOLEAN | FLAG_LOVEHATE
FLAG_DEFAULT == {"FLAG_PHRASE", "FLAG_BOOLEAN", "FLAG_LOVEHATE"}

BooleanOperators == {<<"AND">>}

\* qp.parse_query(text, flags) raises QueryParserError ("Syntax: <expression>
\* AND <expression>"): with FLAG_BOOLEAN a word that is an operator needs an
\* expression on each side. Without the flag the word is a term like another
parse_query_raises(text, flags) ==
    LET words == split(text)
    IN  /\ "FLAG_BOOLEAN" \in flags
        /\ \E k \in 1..Len(words) :
               /\ words[k] \in BooleanOperators
               /\ (k = 1 \/ k = Len(words) \/ words[k + 1] \in BooleanOperators)

\* search lines 113-124: the parse with FLAG_DEFAULT | FLAG_PARTIAL |
\* FLAG_WILDCARD and, when it raises QueryParserError, qp.parse_query(
\* normalized_query) again, whose flags are FLAG_DEFAULT; the call raises when
\* the second parse raises
search_parse_raises(normalized_query) ==
    /\ parse_query_raises(normalized_query, FLAG_DEFAULT \cup {"FLAG_PARTIAL", "FLAG_WILDCARD"})
    /\ parse_query_raises(normalized_query, FLAG_DEFAULT)

\* search_exact lines 212-218: the quoted query parsed with FLAG_PHRASE; a
\* QueryParserError makes the call return []
search_exact_parse_raises(normalized_query) ==
    parse_query_raises(<<"\"">> \o normalized_query \o <<"\"">>, {"FLAG_PHRASE"})

\* The documents of a snapshot a query matches: none when the normalized query
\* has no term, every document otherwise (the pages all hold the term)
matches_of(normalized_query, snap) == IF terms_of(normalized_query) = <<>> THEN <<>> ELSE snap

\* KeywordSearcher.search and KeywordSearcher.search_exact up to the documents
\* they read: an empty list for a blank query, otherwise the matches of the
\* snapshot behind self.db
run_query(op, query) ==
    /\ IF IsBlankQuery(query)
       THEN /\ call' = [NoCall EXCEPT !.op = op, !.query = query, !.outcome = "ok",
                                      !.run = run, !.during = IndexerRunning]
            /\ UNCHANGED <<self_db, handles>>
       ELSE LET normalized_query == normalize(query)
                d == db
                raises == d.err = "none" /\ op = "search"
                              /\ search_parse_raises(normalized_query)
                answers == d.err = "none" /\ ~raises
            IN  /\ self_db' = d.h
                /\ handles' = d.handles
                /\ call' = [op |-> op, query |-> query,
                            outcome |-> IF d.err # "none" THEN d.err
                                        ELSE IF raises THEN "QueryParserError" ELSE "ok",
                            result |-> IF answers
                                          /\ ~(op = "search_exact"
                                                 /\ search_exact_parse_raises(normalized_query))
                                       THEN matches_of(normalized_query, d.handles[d.h].snap)
                                       ELSE <<>>,
                            observed |-> ~raises,
                            saw |-> IF answers
                                    THEN [exists |-> TRUE, docs |-> d.handles[d.h].snap]
                                    ELSE NoIndex,
                            run |-> run, during |-> IndexerRunning, count |-> 0]
    /\ UNCHANGED <<buildVars, threadVars, searchVars, exactVars, pureVars>>

search(query) == run_query("search", query)

search_exact(query) == run_query("search_exact", query)

\* app/main.py, the handler of GET /api/search, lines 163-209: 503 when
\* is_loaded is False (the property reads self.db and catches what it raises),
\* otherwise the searcher's search, 500 when it raises. The query has at least
\* one character (min_length=1)
api_search(query) ==
    /\ query # <<>>
    /\ LET normalized_query == normalize(query)
           d == db
           raises == ~IsBlankQuery(query) /\ search_parse_raises(normalized_query)
       IN  /\ self_db' = d.h
           /\ handles' = d.handles
           /\ call' = [NoCall EXCEPT
                          !.op = "api_search", !.query = query,
                          !.outcome = IF d.err # "none" THEN "503"
                                      ELSE IF raises THEN "500" ELSE "200",
                          !.result = IF d.err = "none" /\ ~raises /\ ~IsBlankQuery(query)
                                     THEN matches_of(normalized_query, d.handles[d.h].snap)
                                     ELSE <<>>,
                          !.run = run, !.during = IndexerRunning]
    /\ UNCHANGED <<buildVars, threadVars, searchVars, exactVars, pureVars>>

\* The handle kept where it is closed and dropped
reload_index_keeping_handle ==
    /\ UNCHANGED <<self_db, handles>>
    /\ call' = [NoCall EXCEPT !.op = "reload_index", !.outcome = "ok",
                              !.saw = IF self_db # 0
                                      THEN [exists |-> TRUE, docs |-> handles[self_db].snap]
                                      ELSE NoIndex,
                              !.run = run, !.during = IndexerRunning]
    /\ UNCHANGED <<buildVars, threadVars, searchVars, exactVars, pureVars>>

\* KeywordSearcher.reload_index; the record keeps what the closed handle saw
reload_index ==
    /\ IF self_db # 0
       THEN /\ handles' = Collect([handles EXCEPT ![self_db].state = "closed"], 0, Threads)
            /\ self_db' = 0
       ELSE UNCHANGED <<self_db, handles>>
    /\ call' = [NoCall EXCEPT !.op = "reload_index", !.outcome = "ok",
                              !.saw = IF self_db # 0
                                      THEN [exists |-> TRUE, docs |-> handles[self_db].snap]
                                      ELSE NoIndex,
                              !.run = run, !.during = IndexerRunning]
    /\ UNCHANGED <<buildVars, threadVars, searchVars, exactVars, pureVars>>

\* The exception of self.db let through
document_count_unguarded ==
    /\ LET d == db
       IN  /\ self_db' = d.h
           /\ handles' = d.handles
           /\ call' = [NoCall EXCEPT
                          !.op = "document_count", !.outcome = d.err,
                          !.count = IF d.err = "none" THEN Len(d.handles[d.h].snap) ELSE 0,
                          !.run = run, !.during = IndexerRunning]
    /\ UNCHANGED <<buildVars, threadVars, searchVars, exactVars, pureVars>>

\* KeywordSearcher.document_count: self.db.get_doccount(), 0 when anything raises
document_count ==
    /\ LET d == db
       IN  /\ self_db' = d.h
           /\ handles' = d.handles
           /\ call' = [NoCall EXCEPT
                          !.op = "document_count", !.outcome = "ok",
                          !.count = IF d.err = "none" THEN Len(d.handles[d.h].snap) ELSE 0,
                          !.saw = IF d.err = "none"
                                  THEN [exists |-> TRUE, docs |-> d.handles[d.h].snap]
                                  ELSE NoIndex,
                          !.run = run, !.during = IndexerRunning]
    /\ UNCHANGED <<buildVars, threadVars, searchVars, exactVars, pureVars>>

\* KeywordSearcher.is_loaded: True when self.db can be read, False when it raises
is_loaded ==
    /\ LET d == db
       IN  /\ self_db' = d.h
           /\ handles' = d.handles
           /\ call' = [NoCall EXCEPT
                          !.op = "is_loaded",
                          !.outcome = IF d.err = "none" THEN "True" ELSE "False",
                          !.saw = IF d.err = "none"
                                  THEN [exists |-> TRUE, docs |-> d.handles[d.h].snap]
                                  ELSE NoIndex,
                          !.run = run, !.during = IndexerRunning]
    /\ UNCHANGED <<buildVars, threadVars, searchVars, exactVars, pureVars>>

\* app/main.py, the handler of GET /api/reload, lines 273-294: reload_index,
\* then document_count on the searcher, which opens the index again
api_reload ==
    /\ LET closed == IF self_db # 0
                     THEN Collect([handles EXCEPT ![self_db].state = "closed"], 0, Threads)
                     ELSE handles
           h == IF disk.exists THEN FirstFree(closed) ELSE 0
       IN  /\ self_db' = h
           /\ handles' = IF h = 0 THEN closed
                         ELSE [closed EXCEPT ![h] = [state |-> "open", snap |-> disk.docs]]
           /\ call' = [NoCall EXCEPT
                          !.op = "api_reload", !.outcome = "200",
                          !.count = IF h = 0 THEN 0 ELSE Len(disk.docs),
                          !.saw = IF h = 0 THEN NoIndex ELSE disk,
                          !.run = run, !.during = IndexerRunning]
    /\ UNCHANGED <<buildVars, threadVars, searchVars, exactVars, pureVars>>

----------------------------------------------------------------------------
(* app/search/keyword.py: the same KeywordSearcher called from several threads.
   A step is a stretch of a method between two accesses to the shared state
   (self._db and the handle behind it). *)

NoOutcome == [status |-> "none", docs |-> <<>>]

InFlight(t) == top[t] \in {"search", "search_exact"} /\ tpc[t] \in {"enquire", "get_mset", "results"}

\* A thread enters search, search_exact (lines 101-102, 203-204: a blank query
\* returns [] at once) or reload_index
thread_call(t, op, query) ==
    /\ tpc[t] = "idle"
    /\ top' = [top EXCEPT ![t] = op]
    /\ tquery' = [tquery EXCEPT ![t] = query]
    /\ tqp' = [tqp EXCEPT ![t] = 0]
    /\ tenq' = [tenq EXCEPT ![t] = 0]
    /\ treloaded' = [treloaded EXCEPT ![t] = FALSE]
    /\ IF op = "reload_index"
       THEN /\ tpc' = [tpc EXCEPT ![t] = "reload_close"]
            /\ tout' = [tout EXCEPT ![t] = NoOutcome]
       ELSE IF IsBlankQuery(query)
            THEN /\ tpc' = [tpc EXCEPT ![t] = "done"]
                 /\ tout' = [tout EXCEPT ![t] = [status |-> "ok", docs |-> <<>>]]
            ELSE /\ tpc' = [tpc EXCEPT ![t] = "set_database"]
                 /\ tout' = [tout EXCEPT ![t] = NoOutcome]
    /\ UNCHANGED <<buildVars, readerVars, searchVars, exactVars, pureVars>>

\* search lines 104-124, search_exact lines 206-218: qp.set_database(self.db)
\* and the parse of the normalized query
thread_set_database(t) ==
    /\ tpc[t] = "set_database"
    /\ LET d == db
       IN  /\ self_db' = d.h
           /\ handles' = d.handles
           /\ IF d.err # "none"
              THEN /\ tqp' = tqp
                   /\ tpc' = [tpc EXCEPT ![t] = "done"]
                   /\ tout' = [tout EXCEPT ![t] = [status |-> d.err, docs |-> <<>>]]
              ELSE IF top[t] = "search" /\ search_parse_raises(normalize(tquery[t]))
              THEN /\ tqp' = tqp
                   /\ tpc' = [tpc EXCEPT ![t] = "done"]
                   /\ tout' = [tout EXCEPT ![t] = [status |-> "QueryParserError", docs |-> <<>>]]
              ELSE IF top[t] = "search_exact" /\ search_exact_parse_raises(normalize(tquery[t]))
              THEN /\ tqp' = tqp
                   /\ tpc' = [tpc EXCEPT ![t] = "done"]
                   /\ tout' = [tout EXCEPT ![t] = [status |-> "ok", docs |-> <<>>]]
              ELSE /\ tqp' = [tqp EXCEPT ![t] = d.h]
                   /\ tpc' = [tpc EXCEPT ![t] = "enquire"]
                   /\ tout' = tout
    /\ UNCHANGED <<buildVars, call, top, tquery, tenq, treloaded, searchVars, exactVars, pureVars>>

\* search lines 127-128, search_exact lines 220-221: xapian.Enquire(self.db),
\* a second access to the property
thread_enquire(t) ==
    /\ tpc[t] = "enquire"
    /\ LET d == db
       IN  /\ self_db' = d.h
           /\ handles' = d.handles
           /\ IF d.err = "none"
              THEN /\ tenq' = [tenq EXCEPT ![t] = d.h]
                   /\ tpc' = [tpc EXCEPT ![t] = "get_mset"]
                   /\ tout' = tout
              ELSE /\ tenq' = tenq
                   /\ tpc' = [tpc EXCEPT ![t] = "done"]
                   /\ tout' = [tout EXCEPT ![t] = [status |-> d.err, docs |-> <<>>]]
    /\ UNCHANGED <<buildVars, call, top, tquery, tqp, treloaded, searchVars, exactVars, pureVars>>

\* search line 132, search_exact line 222: enquire.get_mset reads the database
\* of the Enquire; a closed database raises xapian.DatabaseError
thread_get_mset(t) ==
    /\ tpc[t] = "get_mset"
    /\ IF handles[tenq[t]].state = "closed"
       THEN /\ tpc' = [tpc EXCEPT ![t] = "done"]
            /\ tout' = [tout EXCEPT ![t] = [status |-> "DatabaseError", docs |-> <<>>]]
       ELSE /\ tpc' = [tpc EXCEPT ![t] = "results"]
            /\ tout' = [tout EXCEPT ![t] =
                   [status |-> "none", docs |-> matches_of(normalize(tquery[t]), handles[tenq[t]].snap)]]
    /\ UNCHANGED <<buildVars, readerVars, top, tquery, tqp, tenq, treloaded, searchVars, exactVars, pureVars>>

\* search lines 134-190, search_exact lines 224-246: match.document.get_data()
\* reads each matched document from the database. On a closed database it
\* raises xapian.DatabaseError: search catches only JSONDecodeError, KeyError
\* and AttributeError, so the call fails; search_exact catches Exception and
\* drops the document
thread_results(t) ==
    /\ tpc[t] = "results"
    /\ tpc' = [tpc EXCEPT ![t] = "done"]
    /\ tout' = [tout EXCEPT ![t] =
           IF handles[tenq[t]].state = "closed" /\ tout[t].docs # <<>>
           THEN IF top[t] = "search"
                THEN [status |-> "DatabaseError", docs |-> <<>>]
                ELSE [status |-> "ok", docs |-> <<>>]
           ELSE [status |-> "ok", docs |-> tout[t].docs]]
    /\ UNCHANGED <<buildVars, readerVars, top, tquery, tqp, tenq, treloaded, searchVars, exactVars, pureVars>>

\* reload_index lines 60-61: `if self._db is not None: self._db.close()`
thread_reload_close(t) ==
    /\ tpc[t] = "reload_close"
    /\ IF self_db # 0
       THEN /\ handles' = [handles EXCEPT ![self_db].state = "closed"]
            /\ tpc' = [tpc EXCEPT ![t] = "reload_clear"]
            /\ treloaded' = [u \in Threads |->
                                treloaded[u] \/ (InFlight(u) /\ tqp[u] = self_db)]
            /\ tout' = tout
       ELSE /\ handles' = handles
            /\ tpc' = [tpc EXCEPT ![t] = "done"]
            /\ treloaded' = treloaded
            /\ tout' = [tout EXCEPT ![t] = [status |-> "ok", docs |-> <<>>]]
    /\ UNCHANGED <<buildVars, self_db, call, top, tquery, tqp, tenq, searchVars, exactVars, pureVars>>

\* reload_index line 62: `self._db = None`
thread_reload_clear(t) ==
    /\ tpc[t] = "reload_clear"
    /\ self_db' = 0
    /\ handles' = Collect(handles, 0, Threads)
    /\ tpc' = [tpc EXCEPT ![t] = "done"]
    /\ tout' = [tout EXCEPT ![t] = [status |-> "ok", docs |-> <<>>]]
    /\ UNCHANGED <<buildVars, call, top, tquery, tqp, tenq, treloaded, searchVars, exactVars, pureVars>>

\* The call returns or raises: its locals, and the handles only they held, go
thread_return(t) ==
    /\ tpc[t] = "done"
    /\ tpc' = [tpc EXCEPT ![t] = "idle"]
    /\ top' = [top EXCEPT ![t] = "none"]
    /\ tquery' = [tquery EXCEPT ![t] = <<>>]
    /\ tqp' = [tqp EXCEPT ![t] = 0]
    /\ tenq' = [tenq EXCEPT ![t] = 0]
    /\ tout' = [tout EXCEPT ![t] = NoOutcome]
    /\ treloaded' = [treloaded EXCEPT ![t] = FALSE]
    /\ handles' = Collect(handles, self_db, Threads \ {t})
    /\ UNCHANGED <<buildVars, self_db, call, searchVars, exactVars, pureVars>>

----------------------------------------------------------------------------
(* app/search/keyword.py: KeywordSearcher.search from the match set on.
   A matching document is [doc_id, weight, fuzzy]: its Xapian docid, its Xapian
   weight (match.weight) and fuzz.partial_ratio(query, content_preview).
   Scores are kept in hundredths, the precision round(., 2) leaves. *)

\* self.xapian_weight = 0.7 and self.fuzzy_weight = 0.3, in tenths
xapian_weight == 7
fuzzy_weight == 3

\* num / den rounded to the nearest integer (num >= 0, den > 0)
Round(num, den) == (2 * num + den) \div (2 * den)

\* fetch_limit alone, the offset left out of the number of items asked for
fetch_count_without_offset(lim, off, fuzzy) == IF fuzzy THEN lim * 3 ELSE lim

\* The offset tripled with the limit
fetch_count_tripling_offset(lim, off, fuzzy) == (IF fuzzy THEN 3 ELSE 1) * (lim + off)

\* line 131: fetch_limit, and line 132: the number of items asked of get_mset
fetch_count(lim, off, fuzzy) == (IF fuzzy THEN lim * 3 ELSE lim) + off

\* enquire.get_mset(0, n): the first n matches in relevance order
get_mset(ms, n) == Slice(ms, 0, n)

\* line 151: max_weight = matches.get_max_possible() or 1
max_weight(maxp) == IF maxp = 0 THEN 1 ELSE maxp

\* match.weight * 100, the division by max_weight left out
xapian_score_unnormalized(weight, maxp) == weight * 10000

\* lines 150-152 and 175: round((match.weight / max_weight) * 100, 2), in hundredths
xapian_score(weight, maxp) == Round(weight * 10000, max_weight(maxp))

\* lines 155-159 and 176: round(fuzzy_score, 2), in hundredths
fuzzy_score(fuzz, fuzzy) == IF fuzzy THEN fuzz * 100 ELSE 0

\* The two scores blended half and half
combined_score_equal_weights(weight, fuzz, maxp, fuzzy) ==
    IF fuzzy
    THEN Round(10 * (5 * 100 * weight + 5 * fuzz * max_weight(maxp)), max_weight(maxp))
    ELSE xapian_score(weight, maxp)

\* lines 162-168 and 177: round(combined_score, 2), in hundredths:
\* (weight / max_weight * 100) * 0.7 + fuzz * 0.3
combined_score(weight, fuzz, maxp, fuzzy) ==
    IF fuzzy
    THEN Round(10 * (xapian_weight * 100 * weight + fuzzy_weight * fuzz * max_weight(maxp)),
               max_weight(maxp))
    ELSE xapian_score(weight, maxp)

\* lines 170-179: the result built for one match
result_of(m, maxp, fuzzy) ==
    [doc_id |-> m.doc_id,
     xapian_score |-> xapian_score(m.weight, maxp),
     fuzzy_score |-> fuzzy_score(m.fuzz, fuzzy),
     combined_score |-> combined_score(m.weight, m.fuzz, maxp, fuzzy)]

\* x placed after the elements of the descending list rs whose key is >= its own
RECURSIVE insert_desc(_, _)
insert_desc(rs, x) ==
    IF rs = <<>> THEN <<x>>
    ELSE IF rs[1].combined_score >= x.combined_score
         THEN <<rs[1]>> \o insert_desc(Tail(rs), x)
         ELSE <<x>> \o rs

\* list.sort(key=combined_score, reverse=True): stable, descending
RECURSIVE sort_by_combined(_)
sort_by_combined(rs) ==
    IF rs = <<>> THEN <<>>
    ELSE insert_desc(sort_by_combined(SubSeq(rs, 1, Len(rs) - 1)), rs[Len(rs)])

\* The results left in the order the index returned them
rerank_never(rs, fuzzy) == rs

\* lines 185-187: the results are sorted only when fuzzy reranking is enabled
rerank(rs, fuzzy) == IF fuzzy THEN sort_by_combined(rs) ELSE rs

\* lines 130-190 of search, for a query whose matches are ms
search_results(ms, maxp, lim, off, fuzzy) ==
    LET matches == get_mset(ms, fetch_count(lim, off, fuzzy))
        rs == [k \in 1..Len(matches) |-> result_of(matches[k], maxp, fuzzy)]
    IN  Slice(rerank(rs, fuzzy), off, off + lim)

\* The call returns
search_ranked ==
    /\ spc = "input"
    /\ maxitems' = fetch_count(limit, offset, use_fuzzy_rerank)
    /\ results' = search_results(matched, max_possible, limit, offset, use_fuzzy_rerank)
    /\ spc' = "done"
    /\ UNCHANGED <<buildVars, readerVars, threadVars, exactVars, pureVars,
                   matched, max_possible, limit, offset, use_fuzzy_rerank>>

----------------------------------------------------------------------------
(* index_document and KeywordSearcher.search_exact on one page *)

\* needle occurs in hay as a run of consecutive elements
ContainsSeq(hay, needle) ==
    /\ needle # <<>>
    /\ \E k \in 1..(Len(hay) - Len(needle) + 1) :
           SubSeq(hay, k, k + Len(needle) - 1) = needle

\* index_document lines 95-101: indexer.index_text(variant, weight) for each
\* variant in turn, on the same document. The TermGenerator numbers the terms
\* of a call after those of the call before it (nothing calls
\* increase_termpos), so the document's positional term list is the terms of
\* the variants one after the other
index_text_positions(text) ==
    LET variants == get_variants(text)
    IN  Concat([k \in 1..Len(variants) |-> terms_of(variants[k])])

\* index_document lines 78-126 for one file: an empty page is skipped
index_page ==
    /\ epc = "input"
    /\ positions' = IF strip(content) = <<>> THEN <<>> ELSE index_text_positions(content)
    /\ epc' = "indexed"
    /\ UNCHANGED <<buildVars, readerVars, threadVars, searchVars, pureVars, content, phrase, exact_hits>>

\* search_exact lines 203-222: the page is a match when the terms of the quoted
\* normalized query stand at consecutive positions of the document
phrase_matches(pos, query) ==
    /\ ~IsBlankQuery(query)
    /\ ContainsSeq(pos, terms_of(normalize(query)))

\* search_exact on the index holding the page
search_exact_page ==
    /\ epc = "indexed"
    /\ exact_hits' = IF phrase_matches(positions, phrase) THEN <<content>> ELSE <<>>
    /\ epc' = "done"
    /\ UNCHANGED <<buildVars, readerVars, threadVars, searchVars, pureVars, content, phrase, positions>>

----------------------------------------------------------------------------
(* app/utils/context.py.  A file name is a sequence of characters in which the
   literals "_page_" and ".txt" and a book prefix each stand as one character;
   a file of the corpus directory is what opening and reading it gives *)

DigitChars == <<"0", "1", "2", "3", "4", "5", "6", "7", "8", "9">>

IsDigit(c) == \E d \in 1..Len(DigitChars) : DigitChars[d] = c

digit_value(c) == (CHOOSE d \in 1..Len(DigitChars) : DigitChars[d] = c) - 1

\* int(match.group(2))
RECURSIVE int(_)
int(digits) ==
    IF digits = <<>> THEN 0
    ELSE int(SubSeq(digits, 1, Len(digits) - 1)) * Len(DigitChars) + digit_value(digits[Len(digits)])

\* str(n) for n >= 0
RECURSIVE str(_)
str(n) ==
    IF n < Len(DigitChars) THEN <<DigitChars[n + 1]>>
    ELSE Append(str(n \div Len(DigitChars)), DigitChars[(n % Len(DigitChars)) + 1])

\* f"{n:04d}" for n >= 0: zeros on the left up to four digits
RECURSIVE zero_pad(_)
zero_pad(digits) == IF Len(digits) >= 4 THEN digits ELSE zero_pad(<<"0">> \o digits)

format_04d(n) == zero_pad(str(n))

NoParse == [ok |-> FALSE, prefix |-> <<>>, page |-> 0]

\* parse_filename: re.match(r'^(.+)_page_(\d+)\.txt$', filename)
parse_filename(filename) ==
    LET n == Len(filename)
        seps == {i \in 2..(n - 2) :
                    /\ filename[i] = "_page_"
                    /\ \A k \in (i + 1)..(n - 1) : IsDigit(filename[k])}
    IN  IF n >= 4 /\ filename[n] = ".txt" /\ seps # {}
        THEN LET i == CHOOSE j \in seps : TRUE
             IN  [ok |-> TRUE, prefix |-> SubSeq(filename, 1, i - 1),
                  page |-> int(SubSeq(filename, i + 1, n - 1))]
        ELSE NoParse

NoName == [some |-> FALSE, name |-> <<>>]

\* The page two pages away
get_adjacent_filename_two_away(filename, off) ==
    LET parsed == parse_filename(filename)
        new_page == parsed.page + 2 * off
    IN  IF ~parsed.ok THEN NoName
        ELSE IF new_page < 0 THEN NoName
        ELSE [some |-> TRUE,
              name |-> parsed.prefix \o <<"_page_">> \o format_04d(new_page) \o <<".txt">>]

\* get_adjacent_filename(filename, offset)
get_adjacent_filename(filename, off) ==
    LET parsed == parse_filename(filename)
        new_page == parsed.page + off
    IN  IF ~parsed.ok THEN NoName
        ELSE IF new_page < 0 THEN NoName
        ELSE [some |-> TRUE,
              name |-> parsed.prefix \o <<"_page_">> \o format_04d(new_page) \o <<".txt">>]

\* str.splitlines(): the lines of a text, a final line break adding no line
RECURSIVE splitlines(_)
splitlines(text) ==
    IF text = <<>> THEN <<>>
    ELSE LET brk == {k \in 1..Len(text) : text[k] = "\n"}
             n == IF brk = {} THEN Len(text)
                  ELSE (CHOOSE k \in brk : \A j \in brk : k <= j) - 1
         IN  <<SubSeq(text, 1, n)>> \o splitlines(SubSeq(text, n + 2, Len(text)))

\* "\n".join(parts)
RECURSIVE join(_)
join(parts) ==
    IF parts = <<>> THEN <<>>
    ELSE IF Len(parts) = 1 THEN parts[1]
    ELSE parts[1] \o <<"\n">> \o join(Tail(parts))

\* What open(filepath, 'r', encoding='utf-8') followed by f.read() gives:
\*   "missing"      FileNotFoundError
\*   "denied"       PermissionError (an OSError, which IOError names)
\*   "undecodable"  UnicodeDecodeError (a ValueError): the bytes are not UTF-8
\*   "text"         the text of the file
Missing == [kind |-> "missing", text |-> <<>>]
Denied == [kind |-> "denied", text |-> <<>>]
Undecodable == [kind |-> "undecodable", text |-> <<>>]
TextFile(t) == [kind |-> "text", text |-> t]

\* The file of the corpus directory dir at filepath
file_at(dir, name) == IF name \in DOMAIN dir THEN dir[name] ELSE Missing

\* read_file_lines: the lines, [] for what `except (FileNotFoundError, IOError)`
\* catches; err names the exception that is not caught
read_file_lines(dir, name) ==
    LET f == file_at(dir, name)
    IN  CASE f.kind = "text" -> [lines |-> splitlines(f.text), err |-> "none"]
          [] f.kind = "undecodable" -> [lines |-> <<>>, err |-> "UnicodeDecodeError"]
          [] OTHER -> [lines |-> <<>>, err |-> "none"]

\* Python's `needle in hay` on strings
str_in(needle, hay) ==
    \E k \in 1..(Len(hay) - Len(needle) + 1) : SubSeq(hay, k, k + Len(needle) - 1) = needle

\* find_match_line: index of the first line holding a term, -1 for None
find_match_line(lines, terms) ==
    LET hits == {i \in 1..Len(lines) :
                    \E k \in 1..Len(terms) : str_in(lower(terms[k]), lower(lines[i]))}
    IN  IF hits = {} THEN -1 ELSE (CHOOSE i \in hits : \A j \in hits : i <= j) - 1

\* line 121: [t.strip() for t in query.split() if len(t.strip()) >= 2]
RECURSIVE long_terms(_)
long_terms(words) ==
    IF words = <<>> THEN <<>>
    ELSE IF Len(strip(words[1])) >= 2
         THEN <<strip(words[1])>> \o long_terms(Tail(words))
         ELSE long_terms(Tail(words))

\* Every word of the query taken as a term, whatever its length
query_terms_of_any_length(query) == IF split(query) = <<>> THEN <<query>> ELSE split(query)

\* lines 121-123
query_terms(query) ==
    IF long_terms(split(query)) = <<>> THEN <<query>> ELSE long_terms(split(query))

\* Python's s[lo:hi]: a negative bound counts from the end
slice_bound(i, n) == IF i < 0 THEN Max(i + n, 0) ELSE Min(i, n)

py_slice(s, lo, hi) ==
    LET l == slice_bound(lo, Len(s))
        h == slice_bound(hi, Len(s))
    IN  IF l >= h THEN <<>> ELSE [k \in 1..(h - l) |-> s[l + k]]

\* s[:n], the leading lines where the trailing ones are wanted
first_lines(s, n) == py_slice(s, 0, n)

\* s[-n:] for n > 0
last_lines(s, n) == py_slice(s, 0 - n, Len(s))

\* The marker lines f"[← {prev_filename}]" and f"[→ {next_filename}]"
prev_marker(name) == <<"[<- ">> \o name \o <<"]">>
next_marker(name) == <<"[-> ">> \o name \o <<"]">>

Separator == <<"---">>

NoContext == [outcome |-> "none", content |-> <<>>, match_line |-> -1, sources |-> <<>>,
              lines_before |-> 0, lines_after |-> 0, reads |-> <<>>]

\* The first line alone where the whole page is wanted
no_match_first_line(filename, current_lines) ==
    [outcome |-> "ok", content |-> current_lines[1], match_line |-> 0,
     sources |-> <<filename>>, lines_before |-> 0,
     lines_after |-> Len(current_lines) - 1, reads |-> <<filename>>]

\* lines 128-136: no line holds a term, the whole file is returned
no_match_result(filename, current_lines) ==
    [outcome |-> "ok", content |-> join(current_lines), match_line |-> 0,
     sources |-> <<filename>>, lines_before |-> 0,
     lines_after |-> Len(current_lines) - 1, reads |-> <<filename>>]

\* Every adjacent file that has a name is listed, used or not
sources_with_every_adjacent(prev_filename, prev_context, filename, next_filename, next_context) ==
    (IF prev_filename.some THEN <<prev_filename.name>> ELSE <<>>)
        \o <<filename>>
        \o (IF next_filename.some THEN <<next_filename.name>> ELSE <<>>)

\* lines 148, 167, 176, 199: the list `sources`
context_sources(prev_filename, prev_context, filename, next_filename, next_context) ==
    (IF prev_context # <<>> THEN <<prev_filename.name>> ELSE <<>>)
        \o <<filename>>
        \o (IF next_context # <<>> THEN <<next_filename.name>> ELSE <<>>)

\* The value extract_context returns (match_line -1 is None), with the files
\* it read in `reads`; when a read raises, the outcome is the exception
extract_context(dir, filename, query, cl) ==
    LET cur == read_file_lines(dir, filename)
        current_lines == cur.lines
        match_idx == find_match_line(current_lines, query_terms(query))
        lines_available_before == match_idx
        lines_available_after == Len(current_lines) - match_idx - 1
        \* BEFORE CONTEXT, lines 151-167
        prev_filename == get_adjacent_filename(filename, -1)
        read_prev == lines_available_before < cl /\ prev_filename.some
        prev_read == IF read_prev THEN read_file_lines(dir, prev_filename.name)
                ELSE [lines |-> <<>>, err |-> "none"]
        prev_context == IF prev_read.lines = <<>> THEN <<>>
                        ELSE last_lines(prev_read.lines, cl - lines_available_before)
        prev_parts == IF prev_context = <<>> THEN <<>>
                      ELSE <<prev_marker(prev_filename.name)>> \o prev_context \o <<Separator>>
        \* lines 170-181
        start_idx == Max(0, match_idx - cl)
        before_lines == py_slice(current_lines, start_idx, match_idx)
        end_idx == Min(Len(current_lines), match_idx + cl + 1)
        after_lines == py_slice(current_lines, match_idx + 1, end_idx)
        \* AFTER CONTEXT, lines 183-199
        next_filename == get_adjacent_filename(filename, 1)
        read_next == lines_available_after < cl /\ next_filename.some
        next_read == IF read_next THEN read_file_lines(dir, next_filename.name)
               ELSE [lines |-> <<>>, err |-> "none"]
        next_context == IF next_read.lines = <<>> THEN <<>>
                        ELSE py_slice(next_read.lines, 0, cl - lines_available_after)
        next_parts == IF next_context = <<>> THEN <<>>
                      ELSE <<Separator, next_marker(next_filename.name)>> \o next_context
        context_parts == prev_parts \o before_lines \o <<current_lines[match_idx + 1]>>
                            \o after_lines \o next_parts
        arrows == {k \in 1..Len(context_parts) :
                      context_parts[k] # <<>> /\ context_parts[k][1] = "[-> "}
    IN  IF cur.err # "none"
        THEN [NoContext EXCEPT !.outcome = cur.err, !.reads = <<filename>>]
        ELSE IF current_lines = <<>>
        THEN [NoContext EXCEPT !.outcome = "ok", !.sources = <<filename>>,
                               !.reads = <<filename>>]
        ELSE IF match_idx = -1
        THEN no_match_result(filename, current_lines)
        ELSE IF prev_read.err # "none"
        THEN [NoContext EXCEPT !.outcome = prev_read.err,
                               !.reads = <<filename, prev_filename.name>>]
        ELSE IF next_read.err # "none"
        THEN [NoContext EXCEPT !.outcome = next_read.err,
                               !.reads = <<filename>>
                                   \o (IF read_prev THEN <<prev_filename.name>> ELSE <<>>)
                                   \o <<next_filename.name>>]
        ELSE [outcome |-> "ok",
              content |-> join(context_parts),
              match_line |-> match_idx,
              sources |-> context_sources(prev_filename, prev_context, filename,
                                          next_filename, next_context),
              lines_before |-> Len(before_lines)
                                + (Len(context_parts) - Len(before_lines) - Len(after_lines) - 1),
              lines_after |-> Len(after_lines) + Cardinality(arrows),
              reads |-> <<filename>>
                            \o (IF read_prev THEN <<prev_filename.name>> ELSE <<>>)
                            \o (IF read_next THEN <<next_filename.name>> ELSE <<>>)]

\* One call of extract_context on the corpus directory
call_extract_context ==
    /\ cpc = "input"
    /\ ctx' = extract_context(pages, cfile, cquery, context_lines)
    /\ cpc' = "done"
    /\ UNCHANGED <<buildVars, readerVars, threadVars, searchVars, exactVars,
                   recordVars, normVars, pages, cfile, cquery, context_lines>>

----------------------------------------------------------------------------
(* index_document, lines 78-120, on one source file, and json.loads of the
   stored document data in KeywordSearcher.search, lines 140-144.  A path is
   its sequence of components; the JSON text is a sequence of characters in
   which a key with its colon, and the literal null, each stand as one
   character *)

\* Path.read_text(encoding='utf-8'): text mode, every line ending "\r\n" or
\* "\r" comes back as "\n"
RECURSIVE read_text(_)
read_text(bytes) ==
    IF bytes = <<>> THEN <<>>
    ELSE IF bytes[1] = "\r"
         THEN <<"\n">> \o read_text(IF Len(bytes) >= 2 /\ bytes[2] = "\n"
                                   THEN SubSeq(bytes, 3, Len(bytes)) ELSE Tail(bytes))
         ELSE <<bytes[1]>> \o read_text(Tail(bytes))

\* corpus_path.glob("*.txt") gives corpus_path / name, and str() of a path is
\* its components with "/" between them (Path(".") has no component)
str_path(components) ==
    Concat([k \in 1..Len(components) |->
               (IF k = 1 THEN <<>> ELSE <<"/">>) \o components[k]])

\* file_path.stem: the name without its suffix
stem(name) ==
    IF name # <<>> /\ name[Len(name)] = ".txt" THEN SubSeq(name, 1, Len(name) - 1) ELSE name

\* extract_page_number: int of the last run of digits of the stem, -1 for None
extract_page_number(name) ==
    LET st == stem(name)
        ends == {k \in 1..Len(st) : IsDigit(st[k]) /\ (k = Len(st) \/ ~IsDigit(st[k + 1]))}
    IN  IF ends = {} THEN -1
        ELSE LET e == CHOOSE k \in ends : \A j \in ends : j <= k
                 b == CHOOSE k \in 1..e :
                          /\ \A j \in k..e : IsDigit(st[j])
                          /\ (k = 1 \/ ~IsDigit(st[k - 1]))
             IN  int(SubSeq(st, b, e))

\* json.dumps of a string with ensure_ascii=False: quotes, backslashes and
\* control characters are escaped
json_escape_char(c) ==
    CASE c = "\"" -> <<"\\", "\"">>
      [] c = "\\" -> <<"\\", "\\">>
      [] c = "\n" -> <<"\\", "n">>
      [] c = "\r" -> <<"\\", "r">>
      [] OTHER -> <<c>>

json_string(text) ==
    <<"\"">> \o Concat([k \in 1..Len(text) |-> json_escape_char(text[k])]) \o <<"\"">>

\* json.dumps of an int, and of an Optional[int] (-1 is None)
json_int(n) == str(n)
json_optional_int(n) == IF n = -1 THEN <<"null">> ELSE str(n)

\* lines 104-112: the metadata dict
metadata_of(path, text, doc_id) ==
    [file_path |-> str_path(path),
     page_number |-> extract_page_number(path[Len(path)]),
     content |-> text,
     content_preview |-> IF Len(text) > 500 THEN SubSeq(text, 1, 500) ELSE text,
     char_count |-> Len(text),
     doc_id |-> doc_id]

\* json.dumps(metadata, ensure_ascii=False)
json_dumps(metadata) ==
    <<"{", "file_path:">> \o json_string(metadata.file_path)
        \o <<",", "page_number:">> \o json_optional_int(metadata.page_number)
        \o <<",", "content:">> \o json_string(metadata.content)
        \o <<",", "content_preview:">> \o json_string(metadata.content_preview)
        \o <<",", "char_count:">> \o json_int(metadata.char_count)
        \o <<",", "doc_id:">> \o json_int(metadata.doc_id)
        \o <<"}">>

json_unescape_char(c) ==
    CASE c = "n" -> "\n"
      [] c = "r" -> "\r"
      [] OTHER -> c

\* The JSON parser on a string, s starting after the opening quote: the value
\* and what follows the closing quote
RECURSIVE json_parse_string(_)
json_parse_string(s) ==
    IF s[1] = "\"" THEN [val |-> <<>>, rest |-> Tail(s)]
    ELSE IF s[1] = "\\"
         THEN LET r == json_parse_string(SubSeq(s, 3, Len(s)))
              IN  [val |-> <<json_unescape_char(s[2])>> \o r.val, rest |-> r.rest]
         ELSE LET r == json_parse_string(Tail(s))
              IN  [val |-> <<s[1]>> \o r.val, rest |-> r.rest]

\* The JSON parser on a number or null
json_parse_int(s) ==
    IF s[1] = "null" THEN [val |-> -1, rest |-> Tail(s)]
    ELSE LET n == CHOOSE k \in 1..Len(s) :
                      /\ \A j \in 1..k : IsDigit(s[j])
                      /\ (k = Len(s) \/ ~IsDigit(s[k + 1]))
         IN  [val |-> int(SubSeq(s, 1, n)), rest |-> SubSeq(s, n + 1, Len(s))]

\* json.loads(doc_data): each value is read after "{" or "," and its key
json_loads(data) ==
    LET fp == json_parse_string(SubSeq(data, 4, Len(data)))
        pn == json_parse_int(SubSeq(fp.rest, 3, Len(fp.rest)))
        ct == json_parse_string(SubSeq(pn.rest, 4, Len(pn.rest)))
        cp == json_parse_string(SubSeq(ct.rest, 4, Len(ct.rest)))
        cc == json_parse_int(SubSeq(cp.rest, 3, Len(cp.rest)))
        di == json_parse_int(SubSeq(cc.rest, 3, Len(cc.rest)))
    IN  [file_path |-> fp.val, page_number |-> pn.val, content |-> ct.val,
         content_preview |-> cp.val, char_count |-> cc.val, doc_id |-> di.val]

NoRecord == [file_path |-> <<>>, page_number |-> -1, content |-> <<>>,
             content_preview |-> <<>>, char_count |-> 0, doc_id |-> 0]

\* index_document lines 78-120 on the file corpus_dir / src_name: a file whose
\* content.strip() is empty is skipped
index_source_file ==
    /\ rpc = "input"
    /\ LET text == read_text(src_bytes)
       IN  IF strip(text) = <<>>
           THEN /\ rpc' = "skipped"
                /\ UNCHANGED doc_data
           ELSE /\ doc_data' = json_dumps(metadata_of(Append(corpus_dir, src_name), text, 0))
                /\ rpc' = "indexed"
    /\ UNCHANGED <<buildVars, readerVars, threadVars, searchVars, exactVars, contextVars,
                   normVars, corpus_dir, src_name, src_bytes, record>>

\* KeywordSearcher.search lines 140-144: data = json.loads(doc_data)
read_record ==
    /\ rpc = "indexed"
    /\ record' = json_loads(doc_data)
    /\ rpc' = "read"
    /\ UNCHANGED <<buildVars, readerVars, threadVars, searchVars, exactVars, contextVars,
                   normVars, corpus_dir, src_name, src_bytes, doc_data>>

----------------------------------------------------------------------------
(* MarathiNormalizer applied to one text *)

\* normalized = normalizer.normalize(text)
normalize_text ==
    /\ npc = "input"
    /\ nonce' = normalize(ntext)
    /\ npc' = "normalized"
    /\ UNCHANGED <<buildVars, readerVars, threadVars, searchVars, exactVars, contextVars,
                   recordVars, ntext, ntwice, nvariants>>

\* normalizer.normalize(normalized)
normalize_again ==
    /\ npc = "normalized"
    /\ ntwice' = normalize(nonce)
    /\ npc' = "renormalized"
    /\ UNCHANGED <<buildVars, readerVars, threadVars, searchVars, exactVars, contextVars,
                   recordVars, ntext, nonce, nvariants>>

\* variants = normalizer.get_variants(text)
variants_of_text ==
    /\ npc = "renormalized"
    /\ nvariants' = get_variants(ntext)
    /\ npc' = "done"
    /\ UNCHANGED <<buildVars, readerVars, threadVars, searchVars, exactVars, contextVars,
                   recordVars, ntext, nonce, ntwice>>

----------------------------------------------------------------------------
(* Initial values of the parts a specification does not use *)

NoCorpus == [exists |-> FALSE, files |-> <<>>]

\* No index_corpus process, corpus directory c, index directory d
BuildIdle(c, d) ==
    /\ corpus = c
    /\ disk = d /\ ipc = "idle" /\ run = 0 /\ force_rebuild = FALSE
    /\ text_files = <<>> /\ idx = 0 /\ pending = <<>> /\ stats = NoStats
    /\ ierr = "none" /\ prev = d

ReaderIdle == self_db = 0 /\ handles = [h \in Slots |-> FreeSlot] /\ call = NoCall

ThreadsIdle ==
    /\ tpc = [t \in Threads |-> "idle"]
    /\ top = [t \in Threads |-> "none"]
    /\ tquery = [t \in Threads |-> <<>>]
    /\ tqp = [t \in Threads |-> 0]
    /\ tenq = [t \in Threads |-> 0]
    /\ tout = [t \in Threads |-> NoOutcome]
    /\ treloaded = [t \in Threads |-> FALSE]

SearchIdle ==
    /\ matched = <<>> /\ max_possible = 0 /\ limit = 1 /\ offset = 0
    /\ use_fuzzy_rerank = FALSE /\ maxitems = 0 /\ results = <<>> /\ spc = "idle"

ExactIdle ==
    /\ content = <<>> /\ phrase = <<>> /\ positions = <<>> /\ exact_hits = <<>>
    /\ epc = "idle"

ContextIdle ==
    /\ pages = <<>> /\ cfile = <<>> /\ cquery = <<>> /\ context_lines = 0
    /\ ctx = NoContext /\ cpc = "idle"

RecordIdle ==
    /\ corpus_dir = <<>> /\ src_name = <<>> /\ src_bytes = <<>> /\ doc_data = <<>>
    /\ record = NoRecord /\ rpc = "idle"

NormIdle ==
    /\ ntext = <<>> /\ nonce = <<>> /\ ntwice = <<>> /\ nvariants = <<>> /\ npc = "idle"

PureIdle == ContextIdle /\ RecordIdle /\ NormIdle

----------------------------------------------------------------------------
(* Spec: index_corpus runs as its own process while the server's searcher
   handles one call at a time *)

\* The corpus directories a behaviour starts from: missing, or holding up to
\* MaxFiles .txt files
Corpora ==
    {NoCorpus}
        \cup {[exists |-> TRUE, files |-> f] : f \in SeqsUpTo(FileKinds, MaxFiles)}

Init ==
    /\ \E c \in Corpora : BuildIdle(c, NoIndex)
    /\ ReaderIdle /\ ThreadsIdle /\ SearchIdle /\ ExactIdle /\ PureIdle

Next ==
    \/ \E force \in BOOLEAN : index_corpus(force)
    \/ handle_existing_index
    \/ \E created \in BOOLEAN : create_or_open(created)
    \/ index_next_file
    \/ \E committed \in BOOLEAN : commit(committed)
    \/ process_exit
    \/ \E query \in Queries : search(query)
    \/ \E query \in Queries : search_exact(query)
    \/ reload_index

Spec == Init /\ [][Next]_vars

\* The server of app/main.py answering requests while index_corpus runs on a
\* corpus of one page, or without a corpus
ServerCorpora == {NoCorpus, [exists |-> TRUE, files |-> <<"ok">>]}

InitServer ==
    /\ \E c \in ServerCorpora : BuildIdle(c, NoIndex)
    /\ ReaderIdle /\ ThreadsIdle /\ SearchIdle /\ ExactIdle /\ PureIdle

NextServer ==
    \/ \E force \in BOOLEAN : index_corpus(force)
    \/ handle_existing_index
    \/ \E created \in BOOLEAN : create_or_open(created)
    \/ index_next_file
    \/ \E committed \in BOOLEAN : commit(committed)
    \/ process_exit
    \/ \E query \in ServerQueries : search(query)
    \/ \E query \in ServerQueries : search_exact(query)
    \/ \E query \in ServerQueries : api_search(query)
    \/ reload_index
    \/ document_count
    \/ is_loaded
    \/ api_reload

SpecServer == InitServer /\ [][NextServer]_vars

----------------------------------------------------------------------------
(* SpecThreads: threads share one KeywordSearcher over an index that does not
   change: missing, empty, or holding one document *)

InitThreads ==
    /\ \E d \in {NoIndex, [exists |-> TRUE, docs |-> <<>>],
                 [exists |-> TRUE, docs |-> <<NewDoc(1, 0)>>]} : BuildIdle(NoCorpus, d)
    /\ ReaderIdle /\ ThreadsIdle /\ SearchIdle /\ ExactIdle /\ PureIdle

NextThreads ==
    \E t \in Threads :
        \/ \E op \in {"search", "search_exact"}, query \in Queries : thread_call(t, op, query)
        \/ thread_call(t, "reload_index", <<>>)
        \/ thread_set_database(t)
        \/ thread_enquire(t)
        \/ thread_get_mset(t)
        \/ thread_results(t)
        \/ thread_reload_close(t)
        \/ thread_reload_clear(t)
        \/ thread_return(t)

SpecThreads == InitThreads /\ [][NextThreads]_vars

----------------------------------------------------------------------------
(* Claims about index_corpus and the searcher *)

SearchOps == {"search", "search_exact"}

\* C1: during a rebuild of an existing index (force_rebuild = True) a complete
\* index, the old one or the new one, is on disk in every state: the old index
\* is never deleted before the new one is written.
C1_RebuildKeepsCompleteIndex ==
    (ipc \in {"existing", "create", "loop", "done", "raised"} /\ force_rebuild /\ prev.exists)
        => (disk = prev \/ disk = NewIndex)

\* C2: a search made while index_corpus is running sees either the complete
\* index published before the run or the complete new one, never anything else.
C2_ReaderSeesCompleteIndex ==
    (call.op \in SearchOps /\ call.observed /\ call.during /\ call.run = run /\ IndexerRunning)
        => call.saw \in {prev, NewIndex}

\* C4: when index_corpus aborts with an index-level failure, the index that was
\* published before the call is still on disk, unchanged.
C4_FailedBuildLeavesIndex ==
    (ipc = "raised" /\ ierr = "DatabaseError" /\ prev.exists) => disk = prev

\* C5: when an index_corpus run completes, the index holds as many documents as
\* the run had source files that were not skipped.
C5_DocCountIsIndexedCount ==
    ipc = "done" => /\ disk.exists
                    /\ Len(disk.docs) = stats.total - stats.skipped
                    /\ stats.db_doc_count = stats.total - stats.skipped

\* The positions (from 0) of the files among the first n of text_files that can
\* be read and hold text
UsableFiles(n) == {i \in 0..(n - 1) : text_files[i + 1] = "ok"}

\* The doc_ids of the documents a list holds that the running call added
AddedBy(docs) == {docs[k].doc_id : k \in {j \in 1..Len(docs) : docs[j].run = run}}

\* C22: a file that cannot be read, or that is empty or holds only whitespace,
\* is skipped and the run goes on: after each file the run has counted every
\* file so far as indexed or skipped, the documents it has added are those of
\* the usable files and no other, and a completed run has
\* indexed + skipped = total with every usable file in the index.
C22_UnusableFileIsSkipped ==
    /\ ipc = "loop" =>
           /\ ierr = "none"
           /\ stats.indexed + stats.skipped = idx
           /\ stats.skipped = idx - Cardinality(UsableFiles(idx))
           /\ AddedBy(pending) = UsableFiles(idx)
           /\ Len(pending) = stats.indexed
    /\ ipc = "done" =>
           /\ stats.total = Len(text_files)
           /\ stats.indexed + stats.skipped = stats.total
           /\ stats.skipped = Cardinality({i \in 1..Len(text_files) : text_files[i] # "ok"})
           /\ AddedBy(disk.docs) = UsableFiles(Len(text_files))

\* C22 happens: a run over a file that cannot be read followed by a usable one
\* completed, and the index holds the second file
C22_Witness ==
    /\ ipc = "done" /\ text_files = <<"error", "ok">>
    /\ stats.skipped = 1 /\ stats.indexed = 1
    /\ \E k \in 1..Len(disk.docs) : disk.docs[k] = NewDoc(run, 1)

\* C23: the doc_ids recorded in the documents of the index are unique and
\* increase with the order in which the documents were added.
C23_DocIdsUniqueAndIncreasing ==
    \A j, k \in 1..Len(disk.docs) : j < k => disk.docs[j].doc_id < disk.docs[k].doc_id

\* C9: search and search_exact return an empty list, and raise nothing, for a
\* query that is empty or holds only whitespace.
C9_BlankQueryReturnsEmpty ==
    (call.op \in SearchOps /\ Range(call.query) \subseteq Whitespace)
        => (call.outcome = "ok" /\ call.result = <<>>)

\* C9 happens: a whitespace-only query answered while there is no index on disk
C9_Witness ==
    /\ call.op \in SearchOps /\ call.query = <<" ">> /\ ~disk.exists
    /\ call.outcome = "ok" /\ call.result = <<>>

\* C3: a search or search_exact in flight when reload_index closes the handle
\* completes normally, against the handle it acquired before the reload.
C3_InFlightSearchSurvivesReload ==
    \A t \in Threads :
        (tpc[t] = "done" /\ top[t] \in SearchOps /\ treloaded[t])
            => /\ tout[t].status = "ok"
               /\ tenq[t] = tqp[t]
               /\ tout[t].docs = matches_of(normalize(tquery[t]), handles[tqp[t]].snap)

----------------------------------------------------------------------------
(* SpecSearch: one call of search on a loaded index, for every match set *)

\* Values of fuzz.partial_ratio (0..100) the model draws
FuzzValues == {0, 100}

\* Match sets: a document matching a term query has a positive weight, and
\* Xapian returns the matches by descending weight
MatchSets ==
    {ms \in SeqsUpTo([weight : 1..MaxWeight, fuzz : FuzzValues], MaxDocs) :
        \A k \in 1..(Len(ms) - 1) : ms[k].weight >= ms[k + 1].weight}

WithDocIds(ms) == [k \in 1..Len(ms) |-> [doc_id |-> k, weight |-> ms[k].weight, fuzz |-> ms[k].fuzz]]

InitSearch ==
    /\ BuildIdle(NoCorpus, NoIndex) /\ ReaderIdle /\ ThreadsIdle /\ ExactIdle /\ PureIdle
    /\ \E ms \in MatchSets : matched = WithDocIds(ms)
    \* get_max_possible() is an upper bound of the weight of every match
    /\ max_possible \in 0..MaxWeight
    /\ \A k \in 1..Len(matched) : matched[k].weight <= max_possible
    /\ limit \in 1..MaxLimit
    /\ offset \in 0..MaxOffset
    /\ use_fuzzy_rerank \in BOOLEAN
    /\ maxitems = 0
    /\ results = <<>>
    /\ spc = "input"

NextSearch == search_ranked

SpecSearch == InitSearch /\ [][NextSearch]_vars

----------------------------------------------------------------------------
(* Claims about search *)

\* The full ranked sequence of the query: search with offset 0 and a limit that
\* covers every match
FullRanking == search_results(matched, max_possible, Max(1, Len(matched)), 0, use_fuzzy_rerank)

\* C6 as claimed: search(query, limit=L, offset=O) returns the elements at
\* positions [O, O+L) of the full ranked sequence, for every fuzzy setting.
C6_PageOfFullRanking ==
    spc = "done" => results = Slice(FullRanking, offset, offset + limit)

\* C6 amended: the page is the page of the full ranked sequence when fuzzy
\* reranking is disabled, or enabled with at most 3L + O matching documents.
C6_PageOfFullRankingInWindow ==
    (spc = "done" /\ (~use_fuzzy_rerank \/ Len(matched) <= 3 * limit + offset))
        => results = Slice(FullRanking, offset, offset + limit)

\* C6 happens: a later page of a fuzzy search whose window holds every match and
\* whose reranking moved a document
C6_Witness ==
    /\ spc = "done" /\ use_fuzzy_rerank /\ offset > 0
    /\ Len(matched) <= 3 * limit + offset
    /\ results # <<>>
    /\ \E k \in 1..Len(FullRanking) : FullRanking[k].doc_id # k

\* C7: the returned list is ordered by non-increasing combined_score when fuzzy
\* reranking is enabled and by non-increasing xapian_score when it is disabled.
C7_ResultsOrdered ==
    spc = "done" =>
        \A j \in 1..(Len(results) - 1) :
            IF use_fuzzy_rerank
            THEN results[j].combined_score >= results[j + 1].combined_score
            ELSE results[j].xapian_score >= results[j + 1].xapian_score

\* C7 happens: a fuzzy search returned two documents in another order than the
\* index gave them
C7_Witness ==
    /\ spc = "done" /\ use_fuzzy_rerank /\ Len(results) >= 2
    /\ results[1].doc_id > results[2].doc_id
    /\ results[1].combined_score > results[2].combined_score

WeightOf(r) == matched[r.doc_id].weight

C25_FetchesOffsetPlusLimitTimesThree ==
    spc = "done" =>
        /\ maxitems = (IF use_fuzzy_rerank THEN 3 ELSE 1) * (offset + limit)
        /\ \A k \in 1..Len(results) : results[k].doc_id <= maxitems

\* C25 as the code has it: search asks the index for limit + offset candidates,
\* and for 3 * limit + offset when fuzzy reranking is enabled (the limit is
\* tripled, the offset is not); the candidates are the first ones in the
\* index's order and every result is one of them.
C25_FetchesThreeLimitsPlusOffset ==
    spc = "done" =>
        /\ maxitems = (IF use_fuzzy_rerank THEN 3 * limit ELSE limit) + offset
        /\ \A k \in 1..Len(results) : results[k].doc_id <= maxitems

\* C25 happens: a fuzzy search for a later page asked for fewer candidates
\* than there are matches and returned one of them
C25_Witness ==
    /\ spc = "done" /\ use_fuzzy_rerank /\ offset > 0
    /\ maxitems < Len(matched)
    /\ results # <<>>

Abs(x) == IF x >= 0 THEN x ELSE 0 - x

\* C18: for every result of search, with fuzzy reranking enabled combined_score
\* is 0.7 * primary score + 0.3 * fuzzy_score, where the primary score is
\* match.weight / max_weight * 100 and the scores are reported to two decimals
\* (combined_score is within half a hundredth of the blend, and within one
\* hundredth of the blend of the reported xapian_score and fuzzy_score); with
\* it disabled fuzzy_score is 0, combined_score is the primary score and the
\* results are in the order in which the index returned them.
C18_CombinedScoreBlend ==
    spc = "done" =>
        \A k \in 1..Len(results) :
            LET r == results[k]
                m == matched[r.doc_id]
                mw == max_weight(max_possible)
            IN  IF use_fuzzy_rerank
                THEN /\ r.fuzzy_score = 100 * m.fuzz
                     /\ 2 * Abs(10 * mw * r.combined_score
                                   - (7 * 10000 * m.weight + 3 * 100 * m.fuzz * mw)) <= 10 * mw
                     /\ Abs(10 * r.combined_score
                               - (7 * r.xapian_score + 3 * r.fuzzy_score)) <= 10
                ELSE /\ r.fuzzy_score = 0
                     /\ r.combined_score = r.xapian_score
                     /\ r.doc_id = offset + k

\* C18 happens: a fuzzy search returned a document whose combined score lies
\* strictly between its fuzzy score and its primary score
C18_Witness ==
    /\ spc = "done" /\ use_fuzzy_rerank /\ results # <<>>
    /\ \E k \in 1..Len(results) :
           /\ results[k].fuzzy_score < results[k].combined_score
           /\ results[k].combined_score < results[k].xapian_score
           /\ results[k].xapian_score < 10000

----------------------------------------------------------------------------
(* SpecExact: one page is indexed by index_document, then search_exact runs *)

PageChars == {"a", "b", "A", " "}
PhraseChars == {"a", "b", " "}

InitExact ==
    /\ BuildIdle(NoCorpus, NoIndex) /\ ReaderIdle /\ ThreadsIdle /\ SearchIdle /\ PureIdle
    /\ content \in SeqsUpTo(PageChars, MaxContent)
    /\ phrase \in SeqsUpTo(PhraseChars, MaxPhrase)
    /\ positions = <<>>
    /\ exact_hits = <<>>
    /\ epc = "input"

NextExact == index_page \/ search_exact_page

SpecExact == InitExact /\ [][NextExact]_vars

\* C8: every document search_exact returns has a content in which the terms of
\* the phrase occur contiguously and in order.
C8_ExactHitHoldsPhrase ==
    (epc = "done" /\ exact_hits # <<>>)
        => ContainsSeq(terms_of(exact_hits[1]), terms_of(normalize(phrase)))

----------------------------------------------------------------------------
(* SpecContext: one call of extract_context on a corpus directory that holds
   the pages of one book and a file whose name is not a page name *)

BookPage(digits) == <<"book", "_page_">> \o digits \o <<".txt">>

Page0000 == BookPage(<<"0", "0", "0", "0">>)
Page0001 == BookPage(<<"0", "0", "0", "1">>)
Page0002 == BookPage(<<"0", "0", "0", "2">>)
Page1    == BookPage(<<"1">>)
Notes    == <<"notes", ".txt">>

CorpusNames == {Page0000, Page0001, Page0002, Page1, Notes}

\* The file names extract_context is called with
RequestNames == {Page0000, Page0001, Page1, Notes}

\* Lines of the requested page; the lines of the pages below and above it are
\* written with characters of their own
PageLineSet == {<<"A", "b">>, <<"x">>, <<>>}
LowLines  == <<<<"p">>, <<"q">>, <<"r">>>>
HighLines == <<<<"u">>, <<"v">>, <<"w">>>>
LowChars  == {"p", "q", "r"}
HighChars == {"u", "v", "w"}

RequestedFiles ==
    {Missing, Denied, Undecodable}
        \cup {TextFile(join(ls)) : ls \in SeqsUpTo(PageLineSet, MaxLines)}

AdjacentFiles(ls) ==
    {Missing, Denied, Undecodable}
        \cup {TextFile(join(SubSeq(ls, 1, k))) : k \in 0..Len(ls)}

\* One term of two characters, a query with no term of two characters, the
\* empty query, a short word followed by a term; a page may hold none of them
ContextQueries == {<<"a", "B">>, <<"x">>, <<>>, <<"x", " ", "a", "B">>}

InitContext ==
    /\ BuildIdle(NoCorpus, NoIndex) /\ ReaderIdle /\ ThreadsIdle /\ SearchIdle /\ ExactIdle
    /\ RecordIdle /\ NormIdle
    /\ cfile \in RequestNames
    /\ \E cur \in RequestedFiles, lo \in AdjacentFiles(LowLines), hi \in AdjacentFiles(HighLines) :
           pages = [n \in CorpusNames |->
                       IF n = cfile THEN cur
                       ELSE IF n = Page0000 THEN lo
                       ELSE IF n \in {Page0001, Page0002} THEN hi
                       ELSE Missing]
    /\ cquery \in ContextQueries
    /\ context_lines \in (0 - 2)..MaxWindow
    /\ ctx = NoContext
    /\ cpc = "input"

NextContext == call_extract_context

SpecContext == InitContext /\ [][NextContext]_vars

----------------------------------------------------------------------------
(* Claims about extract_context *)

\* The page before and the page after a page of the book (<<>> when none)
PageBefore(f) == IF f \in {Page0001, Page1} THEN Page0000 ELSE <<>>
PageAfter(f) ==
    IF f = Page0000 THEN Page0001 ELSE IF f \in {Page0001, Page1} THEN Page0002 ELSE <<>>

\* The lines of a file of the corpus directory, none when it cannot be read
LinesOf(n) ==
    IF n \in DOMAIN pages /\ pages[n].kind = "text" THEN splitlines(pages[n].text) ELSE <<>>

\* The anchor: the first line of the requested page that holds a term (-1: none)
AnchorLine == find_match_line(LinesOf(cfile), query_terms(cquery))

Returned == cpc = "done" /\ ctx.outcome = "ok"

IsPrefix(p, s) == Len(p) <= Len(s) /\ SubSeq(s, 1, Len(p)) = p
IsSuffix(p, s) == Len(p) <= Len(s) /\ SubSeq(s, Len(s) - Len(p) + 1, Len(s)) = p

\* The block of the previous page's last k lines, and of the next page's first k
PrevBlock(k) ==
    LET P == LinesOf(PageBefore(cfile))
    IN  prev_marker(PageBefore(cfile)) \o <<"\n">>
            \o Concat([j \in 1..k |-> P[Len(P) - k + j] \o <<"\n">>])
            \o Separator \o <<"\n">>
NextBlock(k) ==
    LET N == LinesOf(PageAfter(cfile))
    IN  <<"\n">> \o Separator \o <<"\n">> \o next_marker(PageAfter(cfile))
            \o Concat([j \in 1..k |-> <<"\n">> \o N[j]])

\* C11: with an anchor at line a of a page of n lines, a side that is short of
\* context_lines in the page and whose adjacent page has lines gets exactly the
\* last (before) or first (after) min(shortfall, lines of that page) lines of
\* it, and the page is in sources; a side that is not short gets none.
C11_ShortfallFilledFromAdjacentPage ==
    (Returned /\ AnchorLine >= 0) =>
        LET a == ctx.match_line
            b == Len(LinesOf(cfile)) - a - 1
            P == LinesOf(PageBefore(cfile))
            N == LinesOf(PageAfter(cfile))
        IN  /\ (a < context_lines /\ P # <<>>) =>
                /\ PageBefore(cfile) \in Range(ctx.sources)
                /\ IsPrefix(PrevBlock(Min(context_lines - a, Len(P))), ctx.content)
            /\ (b < context_lines /\ N # <<>>) =>
                /\ PageAfter(cfile) \in Range(ctx.sources)
                /\ IsSuffix(NextBlock(Min(context_lines - b, Len(N))), ctx.content)
            /\ a >= context_lines =>
                /\ Range(ctx.content) \cap LowChars = {}
                /\ PageBefore(cfile) \notin Range(ctx.sources)
            /\ b >= context_lines =>
                /\ Range(ctx.content) \cap HighChars = {}
                /\ PageAfter(cfile) \notin Range(ctx.sources)

\* C11 happens: both sides are short, each adjacent page has more lines than
\* its side lacks, and the context was returned
C11_Witness ==
    /\ Returned /\ AnchorLine = 1 /\ Len(LinesOf(cfile)) = 3 /\ context_lines = 2
    /\ Len(LinesOf(PageBefore(cfile))) = 3 /\ Len(LinesOf(PageAfter(cfile))) = 3
    /\ Len(ctx.sources) = 3

\* The files that gave the content at least one line, in the order previous
\* page, requested page, next page
Contributors(withRequested) ==
    (IF Range(ctx.content) \cap LowChars # {} THEN <<PageBefore(cfile)>> ELSE <<>>)
        \o (IF withRequested THEN <<cfile>> ELSE <<>>)
        \o (IF Range(ctx.content) \cap HighChars # {} THEN <<PageAfter(cfile)>> ELSE <<>>)

\* C12: sources is exactly the files that gave at least one line, in the order
\* previous, requested, next, and the requested file is always in it.
C12_SourcesAreContributors ==
    Returned =>
        /\ ctx.sources = Contributors(LinesOf(cfile) # <<>>)
        /\ cfile \in Range(ctx.sources)

\* C12 as the code has it: sources is the requested file, always, with the
\* previous page before it and the next page after it exactly when that page
\* gave at least one line.
C12_SourcesAreRequestedAndContributors ==
    Returned => ctx.sources = Contributors(TRUE)

\* C12 happens: the previous page gave lines, the next page gave none
C12_Witness ==
    /\ Returned
    /\ ctx.sources = <<PageBefore(cfile), cfile>>
    /\ LinesOf(PageAfter(cfile)) # <<>>

\* C19: a side that is short in the page and whose adjacent page cannot be
\* used (no such name, missing, unreadable, empty) raises nothing and gets no
\* line of another file, and that file is not in sources.
C19_UnusableAdjacentPageIsSkipped ==
    (cpc = "done" /\ AnchorLine >= 0) =>
        LET a == AnchorLine
            b == Len(LinesOf(cfile)) - a - 1
        IN  /\ (a < context_lines /\ LinesOf(PageBefore(cfile)) = <<>>) =>
                /\ ctx.outcome = "ok"
                /\ Range(ctx.content) \cap LowChars = {}
                /\ PageBefore(cfile) \notin Range(ctx.sources)
            /\ (b < context_lines /\ LinesOf(PageAfter(cfile)) = <<>>) =>
                /\ ctx.outcome = "ok"
                /\ Range(ctx.content) \cap HighChars = {}
                /\ PageAfter(cfile) \notin Range(ctx.sources)

\* C20: a readable, non-empty page of which no line holds a term of the query
\* comes back whole, with match_line 0 and itself as only source, and no other
\* file is read.
C20_NoAnchorReturnsWholePage ==
    (cpc = "done" /\ LinesOf(cfile) # <<>> /\ AnchorLine = -1) =>
        /\ ctx.outcome = "ok"
        /\ ctx.content = Concat([j \in 1..Len(LinesOf(cfile)) |->
                                    (IF j = 1 THEN <<>> ELSE <<"\n">>) \o LinesOf(cfile)[j]])
        /\ ctx.match_line = 0
        /\ ctx.sources = <<cfile>>
        /\ ctx.reads = <<cfile>>

\* C20 happens: a page of three lines, none holding the term, with adjacent
\* pages that have lines and a window that would reach them
C20_Witness ==
    /\ Returned /\ Len(LinesOf(cfile)) = 3 /\ AnchorLine = -1 /\ context_lines = 2
    /\ LinesOf(PageBefore(cfile)) # <<>> /\ LinesOf(PageAfter(cfile)) # <<>>
    /\ ctx.reads = <<cfile>>

\* C21: a requested page that is missing, unreadable or empty gives, without
\* an error, empty content, no match_line, the requested file as only source,
\* lines_before = lines_after = 0, and no other file is read.
C21_UnusableRequestedPageGivesEmptyContext ==
    (cpc = "done" /\ LinesOf(cfile) = <<>>) =>
        /\ ctx.outcome = "ok"
        /\ ctx.content = <<>>
        /\ ctx.match_line = -1
        /\ ctx.sources = <<cfile>>
        /\ ctx.lines_before = 0 /\ ctx.lines_after = 0
        /\ ctx.reads = <<cfile>>

\* The words of a query: its maximal runs of characters that are not whitespace
WordsOf(q) ==
    {SubSeq(q, i, j) : <<i, j>> \in
        {ij \in (1..Len(q)) \X (1..Len(q)) :
            /\ ij[1] <= ij[2]
            /\ \A k \in ij[1]..ij[2] : q[k] \notin Whitespace
            /\ (ij[1] = 1 \/ q[ij[1] - 1] \in Whitespace)
            /\ (ij[2] = Len(q) \/ q[ij[2] + 1] \in Whitespace)}}

\* The terms the anchor is looked for with
AnchorTerms(q) ==
    LET long == {w \in WordsOf(q) : Len(w) >= 2}
    IN  IF long # {} THEN long ELSE {q}

\* term occurs in line, letter case put aside
HoldsTerm(line, term) ==
    \E k \in 0..(Len(line) - Len(term)) :
        \A j \in 1..Len(term) : lower_char(line[k + j]) = lower_char(term[j])

\* The indices (from 0) of the lines of the requested page that hold a term
HitLines ==
    LET terms == AnchorTerms(cquery)
        lines == LinesOf(cfile)
    IN  {i \in 0..(Len(lines) - 1) : \E t \in terms : HoldsTerm(lines[i + 1], t)}

\* C26: match_line is the smallest index of a line that holds, letter case
\* put aside, a whitespace-separated term of the query of length >= 2, or the
\* whole query string when the query has no such term; with no such line the
\* page is returned whole.
C26_AnchorIsFirstLineHoldingATerm ==
    (Returned /\ LinesOf(cfile) # <<>>) =>
        LET hits == HitLines
        IN  IF hits = {}
            THEN ctx.match_line = 0 /\ ctx.lines_after = Len(LinesOf(cfile)) - 1
                     /\ ctx.reads = <<cfile>>
            ELSE /\ ctx.match_line \in hits
                 /\ \A i \in hits : ctx.match_line <= i

\* C26 happens: the first line holds only the short word of the query, the
\* second line holds its term in another letter case, and the second is the anchor
C26_Witness ==
    /\ Returned /\ cquery = <<"x", " ", "a", "B">>
    /\ Len(LinesOf(cfile)) >= 2
    /\ LinesOf(cfile)[1] = <<"x">> /\ LinesOf(cfile)[2] = <<"A", "b">>
    /\ ctx.match_line = 1

\* The number of lines each side of the anchor has in the page and gets from
\* the adjacent page, for a window of context_lines >= 0
InPageBefore == Min(ctx.match_line, context_lines)
InPageAfter == Min(Len(LinesOf(cfile)) - ctx.match_line - 1, context_lines)
FromPrev == Min(context_lines - InPageBefore, Len(LinesOf(PageBefore(cfile))))
FromNext == Min(context_lines - InPageAfter, Len(LinesOf(PageAfter(cfile))))

\* C27: with an anchor found, lines_before is the number of text lines before
\* the anchor (from the previous page and from the page) and lines_after the
\* number of text lines after it (from the page and from the next page);
\* marker lines are not counted.
C27_LineCountsAreTextLines ==
    (Returned /\ AnchorLine >= 0 /\ context_lines >= 0) =>
        /\ ctx.lines_before = FromPrev + InPageBefore
        /\ ctx.lines_after = InPageAfter + FromNext

\* C30: for context_lines >= 0 and an anchor found, the content is the block
\* of at most the shortfall of lines of the previous page, the lines of the
\* page from context_lines before the anchor to context_lines after it, and
\* the block of at most the shortfall of lines of the next page; no other file
\* than the page, the page before and the page after is read.
C30_WindowIsBoundedAndContiguous ==
    (cpc = "done" /\ AnchorLine >= 0 /\ context_lines >= 0) =>
        /\ Range(ctx.reads) \subseteq {cfile, PageBefore(cfile), PageAfter(cfile)} \ {<<>>}
        /\ Returned =>
            LET a == ctx.match_line
                L == LinesOf(cfile)
            IN  /\ FromPrev + InPageBefore <= context_lines
                /\ InPageAfter + FromNext <= context_lines
                /\ ctx.content =
                       (IF FromPrev > 0 THEN PrevBlock(FromPrev) ELSE <<>>)
                           \o join(SubSeq(L, a + 1 - InPageBefore, a + 1 + InPageAfter))
                           \o (IF FromNext > 0 THEN NextBlock(FromNext) ELSE <<>>)

\* C30 happens: the page before has fewer lines than the side lacks, and only
\* the three pages were read
C30_Witness ==
    /\ Returned /\ AnchorLine = 0 /\ context_lines = 2
    /\ Len(LinesOf(PageBefore(cfile))) = 1
    /\ Len(LinesOf(cfile)) = 1 /\ Len(LinesOf(PageAfter(cfile))) = 3
    /\ ctx.reads = <<cfile, PageBefore(cfile), PageAfter(cfile)>>

----------------------------------------------------------------------------
(* SpecRecord: index_document stores one source file, the searcher reads the
   document back *)

\* corpus_dir "." and corpus_dir "./corpus"
CorpusDirs == {<<>>, <<<<"corpus">>>>}

\* Source file names: a stem of up to two characters and the suffix
SourceNames == {st \o <<".txt">> : st \in SeqsUpTo({"p", "0", "1"}, 2) \ {<<>>}}

ByteChars == {"a", " ", "\n", "\r", "\"", "\\"}

InitRecord ==
    /\ BuildIdle(NoCorpus, NoIndex) /\ ReaderIdle /\ ThreadsIdle /\ SearchIdle /\ ExactIdle
    /\ ContextIdle /\ NormIdle
    /\ corpus_dir \in CorpusDirs
    /\ src_name \in SourceNames
    /\ src_bytes \in SeqsUpTo(ByteChars, MaxBytes)
    /\ doc_data = <<>>
    /\ record = NoRecord
    /\ rpc = "input"

NextRecord == index_source_file \/ read_record

SpecRecord == InitRecord /\ [][NextRecord]_vars

\* C13: the record read back for an indexed file holds the file's name as
\* file_path, the number parsed from the name as page_number (none when the
\* name has no number), the file's text as content and its length as char_count.
C13_RecordRoundTrips ==
    rpc = "read" =>
        /\ record.file_path = src_name
        /\ record.page_number = extract_page_number(src_name)
        /\ record.content = src_bytes
        /\ record.char_count = Len(src_bytes)

----------------------------------------------------------------------------
(* SpecNormalize: normalize, normalize again, then get_variants, on one text *)

TextChars == {"n", "nukta", "n_nukta", "A", "FW_A", " "}

InitNormalize ==
    /\ BuildIdle(NoCorpus, NoIndex) /\ ReaderIdle /\ ThreadsIdle /\ SearchIdle /\ ExactIdle
    /\ ContextIdle /\ RecordIdle
    /\ ntext \in SeqsUpTo(TextChars, MaxText)
    /\ nonce = <<>> /\ ntwice = <<>> /\ nvariants = <<>>
    /\ npc = "input"

NextNormalize == normalize_text \/ normalize_again \/ variants_of_text

SpecNormalize == InitNormalize /\ [][NextNormalize]_vars

\* C14: normalize(normalize(s)) = normalize(s), and normalize(s) neither starts
\* nor ends with whitespace nor holds two whitespace characters in a row.
C14_NormalizeIdempotent ==
    npc \in {"renormalized", "done"} =>
        /\ ntwice = nonce
        /\ nonce # <<>> => (nonce[1] \notin Whitespace /\ nonce[Len(nonce)] \notin Whitespace)
        /\ \A k \in 1..(Len(nonce) - 1) :
               ~(nonce[k] \in Whitespace /\ nonce[k + 1] \in Whitespace)

\* C15: get_variants gives a non-empty list without duplicates: the raw input,
\* then the normalized form if it differs from the raw input, then the
\* lowercased normalized form if it differs from both.
C15_VariantsRawNormalizedLowered ==
    npc = "done" =>
        LET withNorm == IF nonce # ntext THEN <<ntext, nonce>> ELSE <<ntext>>
        IN  /\ nvariants # <<>>
            /\ nvariants = IF lower(nonce) \notin Range(withNorm)
                           THEN Append(withNorm, lower(nonce)) ELSE withNorm
            /\ \A j, k \in 1..Len(nvariants) : j # k => nvariants[j] # nvariants[k]

----------------------------------------------------------------------------
(* Claims about the searcher without an index and about malformed queries *)

\* A step of the searcher: a call that left a new record or moved the handle
SearcherStep == <<call, self_db, handles>>' # <<call, self_db, handles>>

\* C16: every search or search_exact made while the index directory is missing
\* fails with FileNotFoundError (503 from the handler of /api/search) and
\* returns no result.
C16_MissingIndexFailsFast ==
    [][(SearcherStep /\ ~disk.exists)
          => /\ call'.op \in SearchOps => call'.outcome = "FileNotFoundError"
             /\ call'.op = "api_search" => call'.outcome = "503"]_vars

\* C16 as the code has it: a search or search_exact with a query that is not
\* blank, made while the index directory is missing by a searcher that holds
\* no open handle, raises FileNotFoundError, and the handler answers 503 for
\* any query; the searcher is left without a handle, so that its next call
\* opens the index again. A blank query returns [] and a searcher that holds a
\* handle answers from it.
C16_MissingIndexFailsUnlessBlankOrCached ==
    [][(SearcherStep /\ ~disk.exists)
          => /\ (call'.op \in SearchOps /\ self_db = 0)
                    => /\ call'.outcome = IF Range(call'.query) \subseteq Whitespace
                                          THEN "ok" ELSE "FileNotFoundError"
                       /\ call'.result = <<>>
                       /\ self_db' = 0
             /\ (call'.op = "api_search" /\ self_db = 0)
                    => (call'.outcome = "503" /\ call'.result = <<>> /\ self_db' = 0)
             /\ (call'.op \in SearchOps \cup {"api_search"} /\ self_db # 0)
                    => call'.outcome \notin {"FileNotFoundError", "503"}]_vars

\* C16 happens: a search with a term failed on the missing index while
\* index_corpus was running, and the searcher holds no handle
C16_Witness ==
    /\ call.op = "search" /\ call.query = <<"a">> /\ ~disk.exists
    /\ call.outcome = "FileNotFoundError" /\ call.during /\ self_db = 0

\* C17: on a loaded index search never fails, whatever the query: a query the
\* structured parse rejects is evaluated as plain terms.
C17_MalformedQueryNeverFails ==
    (call.op = "search" /\ call.outcome # "FileNotFoundError") => call.outcome = "ok"

----------------------------------------------------------------------------
(* Claims about the searcher's handle *)

\* The call of the step read self.db: every call but a search with a blank query
ReadsDb ==
    \/ call'.op \in {"document_count", "is_loaded"}
    \/ call'.op \in SearchOps \cup {"api_search"} /\ ~(Range(call'.query) \subseteq Whitespace)
    \/ call'.op = "api_search"

\* C24: a search or search_exact that fails leaves the searcher's handle and
\* the index on disk as they were.
C24_FailedCallLeavesHandle ==
    [][(SearcherStep /\ call'.op \in SearchOps \cup {"api_search"}
           /\ call'.outcome \in {"FileNotFoundError", "QueryParserError", "503", "500"})
          => (self_db' = self_db /\ handles' = handles /\ disk' = disk)]_vars

\* C28: reload_index drops the handle and raises nothing, and changes nothing
\* when the searcher holds none; a call that reads self.db on a searcher
\* without a handle opens the index as it is on disk at that moment and answers
\* from it; a searcher that holds a handle keeps it and answers from it; the
\* handler of /api/reload reports the number of documents on disk.
C28_ReloadReopensOnNextAccess ==
    [][SearcherStep =>
          /\ call'.op = "reload_index" =>
                 /\ call'.outcome = "ok" /\ self_db' = 0 /\ disk' = disk
                 /\ self_db = 0 => handles' = handles
          /\ (ReadsDb /\ self_db = 0 /\ disk.exists) =>
                 /\ self_db' # 0
                 /\ handles'[self_db'] = [state |-> "open", snap |-> disk.docs]
                 /\ call'.outcome \in {"ok", "True"} => call'.saw = disk
                 /\ call'.outcome \in {"ok", "200"} => call'.result \in {<<>>, disk.docs}
          /\ (call'.op \in SearchOps \cup {"document_count", "is_loaded"} /\ self_db # 0) =>
                 /\ self_db' = self_db /\ handles' = handles
                 /\ (ReadsDb /\ call'.outcome \in {"ok", "True"}) =>
                        call'.saw.docs = handles[self_db].snap
          /\ call'.op = "api_reload" =>
                 /\ call'.outcome = "200"
                 /\ call'.count = Len(disk.docs)
                 /\ disk.exists => handles'[self_db'] = [state |-> "open", snap |-> disk.docs]
                 /\ ~disk.exists => self_db' = 0]_vars

\* C28 happens: reload_index dropped a handle that did not show the documents
\* now on disk, and the searcher holds none
C28_Witness ==
    /\ call.op = "reload_index" /\ call.saw.exists /\ disk.exists
    /\ call.saw.docs # disk.docs /\ disk.docs # <<>>
    /\ self_db = 0

\* C29: on a searcher without a handle and a missing index, is_loaded is False
\* and document_count is 0, nothing is raised and the searcher stays without a
\* handle; once the index is on disk, a search with a term on that searcher
\* opens it and does not fail for want of an index: it answers from the
\* documents on disk whenever the query parses.
C29_NotLoadedUntilIndexExists ==
    [][SearcherStep =>
          /\ (call'.op = "is_loaded" /\ self_db = 0 /\ ~disk.exists) =>
                 (call'.outcome = "False" /\ self_db' = 0 /\ handles' = handles)
          /\ (call'.op = "document_count" /\ self_db = 0 /\ ~disk.exists) =>
                 /\ call'.outcome = "ok" /\ call'.count = 0
                 /\ self_db' = 0 /\ handles' = handles
          /\ (call'.op = "search" /\ ReadsDb /\ self_db = 0 /\ disk.exists) =>
                 /\ call'.outcome # "FileNotFoundError"
                 /\ self_db' # 0 /\ handles'[self_db'].snap = disk.docs
                 /\ ~search_parse_raises(normalize(call'.query)) =>
                        (call'.outcome = "ok" /\ call'.saw = disk)]_vars

\* C29 happens: the searcher that started without an index answered a search
\* from the documents of the first build
C29_Witness ==
    /\ call.op = "search" /\ call.outcome = "ok" /\ call.run = 1 /\ ~call.during
    /\ call.result # <<>> /\ call.result = disk.docs
    /\ self_db # 0

====
